---- MODULE Spec2Model ----
(***************************************************************************)
(* State-machine model of the Go SDK that drives the `claude` CLI as a     *)
(* child process: SubprocessCLITransport (transport.go), Client            *)
(* (client.go) and Query (query.go).                                       *)
(*                                                                         *)
(* One transport object is current at a time (`t`); `gen` counts the       *)
(* transports constructed so far.  The child process and its pipes are     *)
(* `proc`.  The goroutines are the reader (readMessages), the writer       *)
(* (streamInput), one forwarding goroutine per ReceiveMessages / Query     *)
(* call (`fwd`), one relay goroutine per ReceiveResponse call (`rsp`) and  *)
(* the caller.                                                             *)
(***************************************************************************)
EXTENDS Integers, Sequences, FiniteSets, TLC

\* ---------------------------------------------------------------- bounds
\* lines the child may write to stdout over all connections
MaxLines == 3
\* capacity of the inbound channel; transport.go:52 makes it 100, the model
\* scales it so that TLC can fill it
MsgChanCap == 2
\* ReceiveMessages / ReceiveResponse / Query calls of the caller
MaxCalls == 2
\* transports the caller constructs (Client.Connect or Query)
MaxConnects == 1
\* envelopes written to the child's stdin
MaxWrites == 2
\* messages in a prompt channel or slice
MaxPrompt == 1
\* goroutines calling Connect / Disconnect on one Client at the same time
MaxGoroutines == 2
\* transports those goroutines construct
MaxBridges == 2
\* Connect calls on a transport that was disconnected before
MaxReconnects == 1
\* bytes of a line that is a fragment of a JSON object: two of them exceed
\* maxBufferSize, one does not
FragmentLen == 600000
\* lines the child may write in the framing-fault sessions: two overflows
\* of two fragments each, and one more line
MaxFrameLines == 5
\* content blocks in one message
MaxBlocks == 2

\* ------------------------------------------------------ program constants
maxBufferSize == 1048576
ErrChanCap == 1

VARIABLES
    c,          \* Client: connected flag and transport handle
    t,          \* the current SubprocessCLITransport
    gen,        \* number of transports constructed
    proc,       \* the child process, its stdin/stdout pipes
    files,      \* generations whose stderr capture file exists on disk
    prompt,     \* the prompt channel handed to the current transport
    reader,     \* goroutine readMessages of the current transport
    writer,     \* goroutine streamInput of the current transport
    fwd,        \* forwarding goroutines, one per ReceiveMessages/Query call
    rsp,        \* relay goroutines, one per ReceiveResponse call
    caller,     \* the application goroutine
    ctxDone,    \* the caller's context has been cancelled
    hist        \* history: what was decoded, enqueued, delivered, returned

vars == <<c, t, gen, proc, files, prompt, reader, writer, fwd, rsp, caller,
          ctxDone, hist>>

\* ------------------------------------------------------------- messages
\* `text` is the error text of a message Query builds itself
NoFrame == [id |-> 0, type |-> "none", turn |-> 0, part |-> "whole", len |-> 0,
            text |-> ""]

\* a line of the child's stdout: frame `id` of turn `turn`; `part` says
\* whether the line is a whole JSON object, a fragment of one, or blank
Line(id, type, turn, part, len) ==
    [id |-> id, type |-> type, turn |-> turn, part |-> part, len |-> len,
     text |-> ""]

MessageTypes == {"user", "assistant", "system", "result"}

\* ParseMessage: a Message for the four recognised discriminators, an error
\* for anything else
ParseOk(f) == f.type \in MessageTypes

isResult(f) == f.type = "result"

RECURSIVE SelectSeqOk(_)
SelectSeqOk(s) ==
    IF s = <<>> THEN <<>>
    ELSE IF ParseOk(Head(s)) THEN <<Head(s)>> \o SelectSeqOk(Tail(s))
         ELSE SelectSeqOk(Tail(s))

\* variant: the beginning of a JSON object already decodes
UnmarshalOkPrefix(buf) ==
    \/ Len(buf) = 1 /\ buf[1].part \in {"whole", "head"}
    \/ /\ Len(buf) >= 2
       /\ buf[1].part = "head" /\ buf[Len(buf)].part \in {"mid", "tail"}
       /\ \A i \in 1..Len(buf) : buf[i].id = buf[1].id

\* json.Unmarshal of the accumulation buffer into MessageData succeeds when
\* the buffer is exactly one JSON object: one whole line, or the head, the
\* middle lines and the tail of the same frame, in that order
UnmarshalOk(buf) ==
    \/ Len(buf) = 1 /\ buf[1].part = "whole"
    \/ /\ Len(buf) >= 2
       /\ buf[1].part = "head" /\ buf[Len(buf)].part = "tail"
       /\ \A i \in 1..Len(buf) : buf[i].id = buf[1].id
       /\ \A i \in 2..(Len(buf) - 1) : buf[i].part = "mid"

RECURSIVE SumLen(_)
SumLen(buf) == IF buf = <<>> THEN 0 ELSE Head(buf).len + SumLen(Tail(buf))

\* -------------------------------------------------------------- errors
NoError == [type |-> "nil", msg |-> ""]
NewCLIConnectionError(message) == [type |-> "CLIConnectionError", msg |-> message]
Errorf(message) == [type |-> "error", msg |-> message]

ErrNotConnected == NewCLIConnectionError("Not connected. Call Connect() first.")
ErrNotStreaming == Errorf("SendRequest only works in streaming mode")
ErrNoStdin == Errorf("stdin not available - stream may have ended")
ErrWrite == Errorf("write failed")
ErrPromptType == Errorf("unsupported prompt type")
ErrTransportNotConnected == Errorf("not connected")
ErrInterrupt == Errorf("interrupt not implemented for subprocess transport")

\* --------------------------------------------------- decoding an envelope
\* A JSON or Go value: its dynamic type and its payload.  "absent" is a key
\* that is not in the object (or a nil pointer / nil map in a struct);
\* a wire number has kind "number", a Go number kind "int" or "float";
\* a map or list is named by `s`, its contents being opaque to the decoder.
V(kind, s, n) == [kind |-> kind, s |-> s, n |-> n]
Absent == V("absent", "", 0)
Null == V("null", "", 0)
Str(s) == V("string", s, 0)
Num(n) == V("number", "", n)
GoInt(n) == V("int", "", n)
GoFloat(n) == V("float", "", n)
Bool(b) == V("bool", "", IF b THEN 1 ELSE 0)
Map(name) == V("map", name, 0)
List(name) == V("list", name, 0)

\* encoding/json decoding into interface{}: a number becomes a float64
Generic(v) == IF v.kind = "number" THEN GoFloat(v.n) ELSE v

\* an element of a content list; shape "map" is a JSON object with the
\* fields below, any other shape is a value that is not an object
BlockFields ==
    {"type", "text", "thinking", "signature", "id", "name", "input",
     "tool_use_id", "content", "is_error"}
NoBlockData == [shape |-> "map"] @@ [f \in BlockFields |-> Absent]

\* the contents of the "message" object of a user or assistant envelope
NoBody == [model |-> Absent, content |-> Absent, blocks |-> <<>>]

\* the top-level keys MessageData knows (types.go:172-188) and one it does
\* not know, "cwd"
KnownFields ==
    {"type", "message", "parent_tool_use_id", "session_id", "content",
     "model", "subtype", "data", "duration_ms", "duration_api_ms",
     "is_error", "num_turns", "total_cost_usd", "usage", "result"}
TopFields == KnownFields \cup {"cwd"}

\* a top-level JSON object / a map[string]interface{}: its keys, and the
\* contents of its "message" object
EmptyMap == [body |-> NoBody] @@ [f \in TopFields |-> Absent]

\* ---- json.Unmarshal(line, &MessageData) (transport.go:317-318)
\* a key that is absent or null leaves the field at its zero value; a value
\* of another JSON type than the field's is an UnmarshalTypeError
StringFields == {"type", "session_id", "model", "subtype"}
IntFields == {"duration_ms", "duration_api_ms", "num_turns"}
BoolFields == {"is_error"}
MapFields == {"message", "data", "usage"}
FloatPtrFields == {"total_cost_usd"}
StringPtrFields == {"parent_tool_use_id", "result"}

FieldKind(f) ==
    IF f \in StringFields \cup StringPtrFields THEN "string"
    ELSE IF f \in IntFields \cup FloatPtrFields THEN "number"
    ELSE IF f \in BoolFields THEN "bool"
    ELSE IF f \in MapFields THEN "map"
    ELSE "any"

UnmarshalTypeOk(w) ==
    \A f \in KnownFields :
        \/ w[f].kind \in {"absent", "null"}
        \/ FieldKind(f) = "any"
        \/ w[f].kind = FieldKind(f)

\* the struct field decoded from the wire value
UnmarshalField(f, v) ==
    IF v.kind \in {"absent", "null"}
    THEN IF f \in StringFields THEN Str("")
         ELSE IF f \in IntFields THEN GoInt(0)
         ELSE IF f \in BoolFields THEN Bool(FALSE)
         ELSE Absent
    ELSE IF f \in IntFields THEN GoInt(v.n)
    ELSE IF f \in FloatPtrFields THEN GoFloat(v.n)
    ELSE Generic(v)

UnmarshalBlock(b) ==
    [shape |-> b.shape] @@ [f \in BlockFields |-> Generic(b[f])]

RECURSIVE UnmarshalBlocks(_)
UnmarshalBlocks(bs) ==
    IF bs = <<>> THEN <<>>
    ELSE <<UnmarshalBlock(Head(bs))>> \o UnmarshalBlocks(Tail(bs))

\* MessageData: a key the struct does not declare is dropped
Unmarshal(w) ==
    [body |-> IF w.message.kind = "map"
              THEN [model |-> Generic(w.body.model),
                    content |-> Generic(w.body.content),
                    blocks |-> UnmarshalBlocks(w.body.blocks)]
              ELSE NoBody]
    @@ [f \in KnownFields |-> UnmarshalField(f, w[f])]

\* ---- messageDataToMap (client.go:244-291)
messageDataToMap(data) ==
    [body |-> data.body,
     type |-> data.type,
     message |-> data.message,
     parent_tool_use_id |-> data.parent_tool_use_id,
     session_id |-> IF data.session_id.s # "" THEN data.session_id ELSE Absent,
     content |-> data.content,
     model |-> IF data.model.s # "" THEN data.model ELSE Absent,
     subtype |-> IF data.subtype.s # "" THEN data.subtype ELSE Absent,
     data |-> data.data,
     duration_ms |-> IF data.duration_ms.n > 0 THEN data.duration_ms ELSE Absent,
     duration_api_ms |-> IF data.duration_api_ms.n > 0
                         THEN data.duration_api_ms ELSE Absent,
     is_error |-> data.is_error,
     num_turns |-> IF data.num_turns.n > 0 THEN data.num_turns ELSE Absent,
     total_cost_usd |-> data.total_cost_usd,
     usage |-> data.usage,
     result |-> data.result,
     cwd |-> Absent]

\* ---- ParseMessage (parser.go)
\* the result of a parse: a Message and a nil error, or no Message and an
\* error; `kind` and `field` are what the error text says
NoParseError == [kind |-> "nil", field |-> ""]
ErrMissing(field) == [kind |-> "missing", field |-> field]
ErrUnknown(field) == [kind |-> "unknown", field |-> field]
ErrFormat == [kind |-> "invalid format", field |-> ""]

BlockTypes == {"text", "thinking", "tool_use", "tool_result"}

\* a ContentBlock; each variant fills its own fields
NoBlock ==
    [variant |-> "none", text |-> "", thinking |-> "", signature |-> "",
     id |-> "", name |-> "", input |-> Absent, toolUseID |-> "",
     content |-> Absent, isError |-> Absent]

\* a Message; each variant fills its own fields.  `content` is the user's
\* content when it is not a list, `data` the mapping of a System message
NoMessage ==
    [variant |-> "none", blocks |-> <<>>, content |-> Absent, model |-> "",
     subtype |-> "", data |-> EmptyMap, durationMS |-> 0,
     durationAPIMS |-> 0, isError |-> FALSE, numTurns |-> 0,
     sessionID |-> "", totalCostUSD |-> Absent, usage |-> Absent,
     result |-> Absent]

Parsed(msg) == [err |-> NoParseError, msg |-> msg]
Failed(err) == [err |-> err, msg |-> NoMessage]
ParsedBlock(b) == [err |-> NoParseError, block |-> b]
FailedBlock(err) == [err |-> err, block |-> NoBlock]

\* v, ok := m[key].(string)
IsString(v) == v.kind = "string"

\* variant: a number that is absent or of another type counts as 0
getIntLenient(v) == TRUE

\* getInt (parser.go:239-253): an int or a float64
getIntOk(v) == v.kind \in {"int", "float"}

\* parseContentBlock (parser.go:85-162)
parseContentBlock(item) ==
    IF item.shape # "map" THEN FailedBlock(ErrFormat)
    ELSE IF ~IsString(item.type) THEN FailedBlock(ErrMissing("type"))
    ELSE IF item.type.s = "text"
    THEN IF ~IsString(item.text) THEN FailedBlock(ErrMissing("text"))
         ELSE ParsedBlock([NoBlock EXCEPT !.variant = "text",
                                          !.text = item.text.s])
    ELSE IF item.type.s = "thinking"
    THEN IF ~IsString(item.thinking) THEN FailedBlock(ErrMissing("thinking"))
         ELSE IF ~IsString(item.signature)
         THEN FailedBlock(ErrMissing("signature"))
         ELSE ParsedBlock([NoBlock EXCEPT !.variant = "thinking",
                                          !.thinking = item.thinking.s,
                                          !.signature = item.signature.s])
    ELSE IF item.type.s = "tool_use"
    THEN IF ~IsString(item.id) THEN FailedBlock(ErrMissing("id"))
         ELSE IF ~IsString(item.name) THEN FailedBlock(ErrMissing("name"))
         ELSE IF item.input.kind # "map" THEN FailedBlock(ErrMissing("input"))
         ELSE ParsedBlock([NoBlock EXCEPT !.variant = "tool_use",
                                          !.id = item.id.s,
                                          !.name = item.name.s,
                                          !.input = item.input])
    ELSE IF item.type.s = "tool_result"
    THEN IF ~IsString(item.tool_use_id)
         THEN FailedBlock(ErrMissing("tool_use_id"))
         ELSE ParsedBlock([NoBlock EXCEPT
                  !.variant = "tool_result",
                  !.toolUseID = item.tool_use_id.s,
                  !.content = item.content,
                  !.isError = IF item.is_error.kind = "bool"
                              THEN item.is_error ELSE Absent])
    ELSE FailedBlock(ErrUnknown("content block type"))

\* variant: a block that fails to decode is left out of the message
RECURSIVE parseBlocksSkipping(_, _)
parseBlocksSkipping(items, blocks) ==
    IF items = <<>> THEN [err |-> NoParseError, blocks |-> blocks]
    ELSE LET r == parseContentBlock(Head(items))
         IN  IF r.err # NoParseError
             THEN parseBlocksSkipping(Tail(items), blocks)
             ELSE parseBlocksSkipping(Tail(items), Append(blocks, r.block))

\* the loop over a content list: the first failing block ends it
RECURSIVE parseBlocks(_, _)
parseBlocks(items, blocks) ==
    IF items = <<>> THEN [err |-> NoParseError, blocks |-> blocks]
    ELSE LET r == parseContentBlock(Head(items))
         IN  IF r.err # NoParseError THEN [err |-> r.err, blocks |-> <<>>]
             ELSE parseBlocks(Tail(items), Append(blocks, r.block))

\* parseUserMessage (parser.go:29-52)
parseUserMessage(data) ==
    IF data.message.kind # "map" THEN Failed(ErrMissing("message"))
    ELSE IF data.body.content.kind = "list"
    THEN LET r == parseBlocks(data.body.blocks, <<>>)
         IN  IF r.err # NoParseError THEN Failed(r.err)
             ELSE Parsed([NoMessage EXCEPT !.variant = "user",
                                           !.content = data.body.content,
                                           !.blocks = r.blocks])
    ELSE Parsed([NoMessage EXCEPT !.variant = "user",
                                  !.content = data.body.content])

\* parseAssistantMessage (parser.go:54-83)
parseAssistantMessage(data) ==
    IF data.message.kind # "map" THEN Failed(ErrMissing("message"))
    ELSE IF ~IsString(data.body.model) THEN Failed(ErrMissing("model"))
    ELSE IF data.body.content.kind # "list" THEN Failed(ErrMissing("content"))
    ELSE LET r == parseBlocks(data.body.blocks, <<>>)
         IN  IF r.err # NoParseError THEN Failed(r.err)
             ELSE Parsed([NoMessage EXCEPT !.variant = "assistant",
                                           !.content = data.body.content,
                                           !.blocks = r.blocks,
                                           !.model = data.body.model.s])

\* parseSystemMessage (parser.go:164-174)
parseSystemMessage(data) ==
    IF ~IsString(data.subtype) THEN Failed(ErrMissing("subtype"))
    ELSE Parsed([NoMessage EXCEPT !.variant = "system",
                                  !.subtype = data.subtype.s,
                                  !.data = data])

\* variant: an absent total_cost_usd or result decodes to its zero value
parseResultMessageDefaults(data) ==
    IF ~IsString(data.subtype) THEN Failed(ErrMissing("subtype"))
    ELSE IF ~getIntOk(data.duration_ms) THEN Failed(ErrMissing("duration_ms"))
    ELSE IF ~getIntOk(data.duration_api_ms)
    THEN Failed(ErrMissing("duration_api_ms"))
    ELSE IF data.is_error.kind # "bool" THEN Failed(ErrMissing("is_error"))
    ELSE IF ~getIntOk(data.num_turns) THEN Failed(ErrMissing("num_turns"))
    ELSE IF ~IsString(data.session_id) THEN Failed(ErrMissing("session_id"))
    ELSE Parsed([NoMessage EXCEPT
             !.variant = "result",
             !.subtype = data.subtype.s,
             !.durationMS = data.duration_ms.n,
             !.durationAPIMS = data.duration_api_ms.n,
             !.isError = data.is_error.n = 1,
             !.numTurns = data.num_turns.n,
             !.sessionID = data.session_id.s,
             !.totalCostUSD = IF data.total_cost_usd.kind = "float"
                              THEN data.total_cost_usd ELSE GoFloat(0),
             !.usage = IF data.usage.kind = "map" THEN data.usage ELSE Absent,
             !.result = IF data.result.kind = "string"
                        THEN data.result ELSE Str("")])

\* parseResultMessage (parser.go:176-236)
parseResultMessage(data) ==
    IF ~IsString(data.subtype) THEN Failed(ErrMissing("subtype"))
    ELSE IF ~getIntOk(data.duration_ms) THEN Failed(ErrMissing("duration_ms"))
    ELSE IF ~getIntOk(data.duration_api_ms)
    THEN Failed(ErrMissing("duration_api_ms"))
    ELSE IF data.is_error.kind # "bool" THEN Failed(ErrMissing("is_error"))
    ELSE IF ~getIntOk(data.num_turns) THEN Failed(ErrMissing("num_turns"))
    ELSE IF ~IsString(data.session_id) THEN Failed(ErrMissing("session_id"))
    ELSE Parsed([NoMessage EXCEPT
             !.variant = "result",
             !.subtype = data.subtype.s,
             !.durationMS = data.duration_ms.n,
             !.durationAPIMS = data.duration_api_ms.n,
             !.isError = data.is_error.n = 1,
             !.numTurns = data.num_turns.n,
             !.sessionID = data.session_id.s,
             !.totalCostUSD = IF data.total_cost_usd.kind = "float"
                              THEN data.total_cost_usd ELSE Absent,
             !.usage = IF data.usage.kind = "map" THEN data.usage ELSE Absent,
             !.result = IF data.result.kind = "string"
                        THEN data.result ELSE Absent])

\* variant: an unrecognised type is passed through as a Message
ParseMessageAnyType(data) ==
    IF ~IsString(data.type) THEN Failed(ErrMissing("type"))
    ELSE IF data.type.s = "user" THEN parseUserMessage(data)
    ELSE IF data.type.s = "assistant" THEN parseAssistantMessage(data)
    ELSE IF data.type.s = "system" THEN parseSystemMessage(data)
    ELSE IF data.type.s = "result" THEN parseResultMessage(data)
    ELSE Parsed([NoMessage EXCEPT !.variant = data.type.s])

\* ParseMessage (parser.go:9-27)
ParseMessage(data) ==
    IF ~IsString(data.type) THEN Failed(ErrMissing("type"))
    ELSE IF data.type.s = "user" THEN parseUserMessage(data)
    ELSE IF data.type.s = "assistant" THEN parseAssistantMessage(data)
    ELSE IF data.type.s = "system" THEN parseSystemMessage(data)
    ELSE IF data.type.s = "result" THEN parseResultMessage(data)
    ELSE Failed(ErrUnknown("message type"))

\* the envelope being decoded: the wire object, the MessageData decoded
\* from it, the map handed to ParseMessage and what ParseMessage returned
NoOutcome == Failed(NoParseError)
NoParse ==
    [stage |-> "idle", wire |-> EmptyMap, data |-> EmptyMap,
     in |-> EmptyMap, out |-> NoOutcome]

\* ----------------------------------------------------------- transport
\* NewSubprocessCLITransport: fresh channels, nothing spawned
NewTransport(streaming, closeStdinAfterPrompt) ==
    [isStreaming |-> streaming,
     closeStdinAfterPrompt |-> closeStdinAfterPrompt,
     connected |-> FALSE,
     stdin |-> "nil", stdout |-> "nil", stderrFile |-> "nil", cmd |-> "nil",
     started |-> FALSE,
     msgChan |-> <<>>, msgChanClosed |-> FALSE,
     errChan |-> <<>>,
     doneChanClosed |-> FALSE,
     \* how often a reader's deferred close of the two channels has run
     closes |-> 0,
     \* cleanup effects performed by Disconnect on this transport
     stdinCloses |-> 0, kills |-> 0, removes |-> 0]

NoProc ==
    [state |-> "none", killed |-> FALSE, exitCode |-> 0, waited |-> FALSE,
     stdinOpen |-> FALSE, stdinLog |-> 0,
     \* interrupt signals the child has been sent
     interrupts |-> 0,
     \* the envelopes written to stdin by SendRequest, with their origin
     stdinEnv |-> <<>>,
     turnsIn |-> 0, turn |-> 1,
     stdout |-> <<>>, stdoutClosed |-> FALSE]

IdleReader == [pc |-> "idle", jsonBuffer |-> <<>>, data |-> NoFrame,
               err |-> "", next |-> ""]
\* `failed`: the loop was left because a write to stdin returned an error
IdleWriter == [pc |-> "idle", failed |-> FALSE]
NoPrompt == [items |-> 0, closed |-> FALSE]

\* what the caller's last call returned, and what it did on the way:
\* envelopes written to stdin, items consumed from a channel prompt, and
\* whether the client was connected / the bridge streaming when called
NoRet == [op |-> "none", err |-> NoError, wrote |-> 0, consumed |-> 0,
          wasConnected |-> FALSE, wasStreaming |-> FALSE,
          pk |-> "none", n |-> 0, g |-> 0, again |-> FALSE,
          messages |-> <<>>]
Ret(op, err) == [NoRet EXCEPT !.op = op, !.err = err,
                              !.wasConnected = c.connected,
                              !.wasStreaming = c.connected /\ t.isStreaming]

Calls == 1..MaxCalls

\* goroutines of the application that call Client.Connect and
\* Client.Disconnect concurrently: where each one is in its call, and the
\* transports they have constructed (c.transport is an index into them)
Goroutines == 1..MaxGoroutines
NoPar == [pc |-> [g \in Goroutines |-> "idle"], bridges |-> <<>>]
\* `err`: why a Query could not start
IdleFwd == [pc |-> "idle", kind |-> "none", gen |-> 0, msg |-> NoFrame,
            taken |-> <<>>, closed |-> FALSE, err |-> NoError]
IdleRsp == [pc |-> "idle", msg |-> NoFrame, closed |-> FALSE,
            sawResult |-> FALSE]

Init ==
    /\ c = [connected |-> FALSE, transport |-> 0]
    /\ t = NewTransport(FALSE, FALSE)
    /\ gen = 0
    /\ proc = NoProc
    /\ files = {}
    /\ prompt = NoPrompt
    /\ reader = IdleReader
    /\ writer = IdleWriter
    /\ fwd = [k \in Calls |-> IdleFwd]
    /\ rsp = [k \in Calls |-> IdleRsp]
    /\ caller = [pc |-> "idle", k |-> 0, calls |-> 0, direct |-> 0,
                 reconnects |-> 0, par |-> NoPar, sync |-> <<>>,
                 \* the call that holds t.mu, and where it is
                 mu |-> "free"]
    /\ ctxDone = FALSE
    /\ hist = [nextId |-> 1, decoded |-> <<>>, enqueued |-> <<>>,
               delivered |-> <<>>, ret |-> NoRet, parse |-> NoParse]

\* ------------------------------------------- SubprocessCLITransport.Connect
\* what can happen inside Connect: os.CreateTemp, StdinPipe, StdoutPipe or
\* cmd.Start fails, or the child is spawned
ConnectOutcomes == {"ok", "tempfail", "stdinpipefail", "stdoutpipefail", "startfail"}

ConnectError(t0, outcome) ==
    IF t0.connected \/ outcome = "ok" THEN NoError
    ELSE Errorf("failed to connect")

\* the transport object after Connect on transport t0
ConnectT(t0, outcome) ==
    IF t0.connected \/ outcome = "tempfail" THEN t0
    ELSE LET t1 == [t0 EXCEPT !.stderrFile = "set", !.cmd = "set"]
             t2 == IF t0.isStreaming /\ outcome # "stdinpipefail"
                   THEN [t1 EXCEPT !.stdin = "set"] ELSE t1
             t3 == IF outcome \in {"startfail", "ok"}
                   THEN [t2 EXCEPT !.stdout = "set"] ELSE t2
         IN  IF outcome = "ok"
             THEN [t3 EXCEPT !.connected = TRUE, !.started = TRUE]
             ELSE t3

\* the stderr capture file is created first and survives every later failure
ConnectFiles(t0, g, outcome) ==
    IF t0.connected \/ outcome = "tempfail" THEN files ELSE files \cup {g}

SpawnedProc(t0) ==
    [NoProc EXCEPT !.state = "running",
                   !.stdinOpen = t0.isStreaming,
                   \* without streaming the prompt travels as --print argument
                   !.turnsIn = IF t0.isStreaming THEN 0 ELSE 1]

\* Connect of transport t0 of generation g: the new transport, process and
\* background goroutines
Connect(t0, g, outcome) ==
    /\ outcome = "stdinpipefail" => t0.isStreaming
    /\ t' = ConnectT(t0, outcome)
    /\ files' = ConnectFiles(t0, g, outcome)
    /\ IF ~t0.connected /\ outcome = "ok"
       THEN /\ proc' = SpawnedProc(t0)
            /\ reader' = [IdleReader EXCEPT !.pc = "scan"]
            /\ writer' = [IdleWriter EXCEPT
                              !.pc = IF t0.isStreaming THEN "range" ELSE "idle"]
       ELSE /\ proc' = IF t0.connected THEN proc ELSE NoProc
            /\ reader' = IF t0.connected THEN reader ELSE IdleReader
            /\ writer' = IF t0.connected THEN writer ELSE IdleWriter

\* ---------------------------------------- SubprocessCLITransport.Disconnect
\* variant: the cleanup runs whether or not the transport is connected
DisconnectTUnguarded(t0) ==
    [t0 EXCEPT
        !.stdin = "nil",
        !.stdinCloses = @ + 1,
        !.kills = IF t0.cmd # "nil" /\ t0.started THEN @ + 1 ELSE @,
        !.stderrFile = "nil",
        !.removes = @ + 1,
        !.connected = FALSE]

DisconnectT(t0) ==
    IF ~t0.connected THEN t0
    ELSE [t0 EXCEPT
            !.stdin = "nil",
            !.stdinCloses = IF t0.stdin # "nil" THEN @ + 1 ELSE @,
            !.kills = IF t0.cmd # "nil" /\ t0.started THEN @ + 1 ELSE @,
            !.stderrFile = "nil",
            !.removes = IF t0.stderrFile # "nil" THEN @ + 1 ELSE @,
            !.connected = FALSE]

\* Process.Kill followed by cmd.Wait: the child is dead and Wait has closed
\* the read end of the stdout pipe
DisconnectProc(t0) ==
    IF ~t0.connected THEN proc
    ELSE LET p1 == IF t0.stdin # "nil" THEN [proc EXCEPT !.stdinOpen = FALSE]
                   ELSE proc
         IN  IF t0.cmd # "nil" /\ t0.started
             THEN [p1 EXCEPT !.state = "exited",
                             !.killed = (proc.state = "running"),
                             !.waited = TRUE,
                             !.stdoutClosed = TRUE]
             ELSE p1

DisconnectFiles(t0, g) ==
    IF t0.connected /\ t0.stderrFile # "nil" THEN files \ {g} ELSE files

\* Disconnect returns nil on every path
DisconnectError(t0) == NoError

\* ------------------------------------------------------------ the child
\* the lines of a script, numbered from id, all of turn `turn`
RECURSIVE Lines(_, _, _)
Lines(types, id, turn) ==
    IF types = <<>> THEN <<>>
    ELSE <<Line(id, Head(types), turn, "whole", 64)>>
         \o Lines(Tail(types), id + 1, turn)

\* what the child may write in one go while answering a turn: up to n lines
\* over the given types, a result line only as the last one (it ends the turn)
RECURSIVE Scripts(_, _)
Scripts(types, n) ==
    IF n = 0 THEN {}
    ELSE {<<ty>> : ty \in types}
         \cup {<<ty>> \o sc : ty \in types \ {"result"}, sc \in Scripts(types, n - 1)}

Last(sq) == sq[Len(sq)]

\* the child answers turn proc.turn once that turn has been written to its
\* stdin; a result line ends the turn
ChildWrite(types) ==
    /\ proc.state = "running"
    /\ proc.turn <= proc.turnsIn
    /\ hist.nextId <= MaxLines
    /\ \E sc \in Scripts(types, MaxLines + 1 - hist.nextId) :
         /\ proc' = [proc EXCEPT
                !.stdout = @ \o Lines(sc, hist.nextId, proc.turn),
                !.turn = IF Last(sc) = "result" THEN @ + 1 ELSE @]
         /\ hist' = [hist EXCEPT !.nextId = @ + Len(sc)]
    /\ UNCHANGED <<c, t, gen, files, prompt, reader, writer, fwd, rsp, caller, ctxDone>>

\* the child writes one line that is only the beginning of a JSON object
ChildFragment ==
    /\ proc.state = "running"
    /\ proc.turn <= proc.turnsIn
    /\ hist.nextId <= MaxLines
    /\ proc' = [proc EXCEPT !.stdout =
           Append(@, Line(hist.nextId, "assistant", proc.turn, "head",
                          FragmentLen))]
    /\ hist' = [hist EXCEPT !.nextId = @ + 1]
    /\ UNCHANGED <<c, t, gen, files, prompt, reader, writer, fwd, rsp, caller, ctxDone>>

SessionTypes == {"assistant", "result", "control_response", "unknown"}

ChildEmit == ChildWrite(SessionTypes)

\* the child ends by itself; its exit code is seen by whoever waits for it
ChildExit ==
    /\ proc.state = "running"
    /\ proc' = [proc EXCEPT !.state = "exited"]
    /\ UNCHANGED <<c, t, gen, files, prompt, reader, writer, fwd, rsp, caller,
                   ctxDone, hist>>

\* exit status of a child that ended by itself (0 or 1) or was killed (-1)
ExitCodes == IF proc.killed THEN {-1} ELSE {0, 1}

\* ------------------------------------- SubprocessCLITransport.readMessages
\* a history entry: frame f seen on the transport of generation gen
Tag(f) == [g |-> gen, f |-> f]

\* the deferred close(t.doneChan); close(t.msgChan)
ReaderReturn(t0) ==
    [t0 EXCEPT !.doneChanClosed = TRUE, !.msgChanClosed = TRUE,
               !.closes = @ + 1]

\* variant: a control response is skipped without clearing the buffer
ReaderScanKeepsControl ==
    /\ reader.pc = "scan"
    /\ proc.stdout # <<>>
    /\ ~proc.stdoutClosed
    /\ proc' = [proc EXCEPT !.stdout = Tail(@)]
    /\ LET line == Head(proc.stdout)
           buf == Append(reader.jsonBuffer, line)
       IN  IF line.part = "blank"
           THEN UNCHANGED <<reader, hist>>
           ELSE IF SumLen(buf) > maxBufferSize
           THEN /\ reader' = [reader EXCEPT !.jsonBuffer = <<>>, !.pc = "err",
                                            !.err = "overflow", !.next = "scan"]
                /\ UNCHANGED hist
           ELSE IF UnmarshalOk(buf)
           THEN IF line.type = "control_response"
                THEN /\ reader' = [reader EXCEPT !.jsonBuffer = buf]
                     /\ hist' = [hist EXCEPT !.decoded = Append(@, Tag(line))]
                ELSE /\ reader' = [reader EXCEPT !.jsonBuffer = <<>>,
                                                 !.pc = "send", !.data = line]
                     /\ hist' = [hist EXCEPT !.decoded = Append(@, Tag(line))]
           ELSE /\ reader' = [reader EXCEPT !.jsonBuffer = buf]
                /\ UNCHANGED hist
    /\ UNCHANGED <<c, t, gen, files, prompt, writer, fwd, rsp, caller, ctxDone>>

\* one iteration of the scanner loop up to the send on msgChan
ReaderScan ==
    /\ reader.pc = "scan"
    /\ proc.stdout # <<>>
    /\ ~proc.stdoutClosed
    /\ proc' = [proc EXCEPT !.stdout = Tail(@)]
    /\ LET line == Head(proc.stdout)
           buf == Append(reader.jsonBuffer, line)
       IN  IF line.part = "blank"
           THEN UNCHANGED <<reader, hist>>
           ELSE IF SumLen(buf) > maxBufferSize
           THEN /\ reader' = [reader EXCEPT !.jsonBuffer = <<>>, !.pc = "err",
                                            !.err = "overflow", !.next = "scan"]
                /\ UNCHANGED hist
           ELSE IF UnmarshalOk(buf)
           THEN IF line.type = "control_response"
                THEN /\ reader' = [reader EXCEPT !.jsonBuffer = <<>>]
                     /\ hist' = [hist EXCEPT !.decoded = Append(@, Tag(line))]
                ELSE /\ reader' = [reader EXCEPT !.jsonBuffer = <<>>,
                                                 !.pc = "send", !.data = line]
                     /\ hist' = [hist EXCEPT !.decoded = Append(@, Tag(line))]
           ELSE /\ reader' = [reader EXCEPT !.jsonBuffer = buf]
                /\ UNCHANGED hist
    /\ UNCHANGED <<c, t, gen, files, prompt, writer, fwd, rsp, caller, ctxDone>>

\* variant: the channel hands out the newest frame first
EnqueueFront(ch, data) == <<data>> \o ch

\* variant: a frame sent while another is still buffered is lost
EnqueueLossy(ch, data) == IF ch = <<>> THEN <<data>> ELSE ch

\* a send on the buffered channel t.msgChan
Enqueue(ch, data) == Append(ch, data)

\* select { case t.msgChan <- data: ; case <-t.doneChan: return }
ReaderSend ==
    /\ reader.pc = "send"
    /\ \/ /\ Len(t.msgChan) < MsgChanCap
          /\ ~t.msgChanClosed
          /\ t' = [t EXCEPT !.msgChan = Enqueue(@, reader.data)]
          /\ reader' = [reader EXCEPT !.pc = "scan", !.data = NoFrame]
          /\ hist' = [hist EXCEPT !.enqueued = Append(@, Tag(reader.data))]
       \/ /\ t.doneChanClosed
          /\ t' = ReaderReturn(t)
          /\ reader' = [reader EXCEPT !.pc = "done"]
          /\ UNCHANGED hist
       \* a send on a closed channel panics
       \/ /\ t.msgChanClosed
          /\ reader' = [reader EXCEPT !.pc = "panic"]
          /\ UNCHANGED <<t, hist>>
    /\ UNCHANGED <<c, gen, proc, files, prompt, writer, fwd, rsp, caller, ctxDone>>

\* scanner.Scan() returns false: end of file, or a read error after
\* Disconnect's Wait closed the pipe under the scanner
ReaderEOF ==
    /\ reader.pc = "scan"
    /\ \/ /\ proc.state = "exited" /\ proc.stdout = <<>> /\ ~proc.stdoutClosed
          /\ reader' = [reader EXCEPT !.pc = "wait"]
       \/ /\ proc.stdoutClosed
          /\ \E scanErr \in BOOLEAN :
                reader' = IF scanErr
                          THEN [reader EXCEPT !.pc = "err", !.err = "scan",
                                              !.next = "wait"]
                          ELSE [reader EXCEPT !.pc = "wait"]
    /\ UNCHANGED <<c, t, gen, proc, files, prompt, writer, fwd, rsp, caller,
                   ctxDone, hist>>

\* t.errChan <- err: blocks while the channel holds an error
ReaderErrSend ==
    /\ reader.pc = "err"
    /\ Len(t.errChan) < ErrChanCap
    /\ LET t1 == [t EXCEPT !.errChan = Append(@, reader.err)]
       IN  IF reader.next = "exit"
           THEN /\ t' = ReaderReturn(t1)
                /\ reader' = [reader EXCEPT !.pc = "done", !.err = "", !.next = ""]
           ELSE /\ t' = t1
                /\ reader' = [reader EXCEPT !.pc = reader.next, !.err = "",
                                            !.next = ""]
    /\ UNCHANGED <<c, gen, proc, files, prompt, writer, fwd, rsp, caller,
                   ctxDone, hist>>

\* t.cmd.Wait(): an error for a non-zero exit, a killed child, or a Wait
\* that Disconnect has already performed
ReaderWait ==
    /\ reader.pc = "wait"
    /\ proc.state = "exited"
    /\ \E code \in ExitCodes :
         /\ proc' = [proc EXCEPT !.waited = TRUE, !.stdoutClosed = TRUE,
                                 !.exitCode = code]
         /\ IF code # 0 \/ proc.waited
            THEN /\ reader' = [reader EXCEPT !.pc = "err", !.err = "process",
                                             !.next = "exit"]
                 /\ t' = t
            ELSE /\ reader' = [reader EXCEPT !.pc = "done"]
                 /\ t' = ReaderReturn(t)
    /\ UNCHANGED <<c, gen, files, prompt, writer, fwd, rsp, caller, ctxDone, hist>>

\* --------------------------------------- SubprocessCLITransport.streamInput
WriteOk == proc.stdinOpen /\ proc.state = "running"

\* variant: stdin is closed on return whatever the configuration
WriterReturnAlways(p) ==
    IF t.stdin # "nil" THEN [p EXCEPT !.stdinOpen = FALSE] ELSE p

\* the deferred close of stdin when closeStdinAfterPrompt is set
WriterReturn(p) ==
    IF t.closeStdinAfterPrompt /\ t.stdin # "nil"
    THEN [p EXCEPT !.stdinOpen = FALSE] ELSE p

streamInput ==
    /\ writer.pc = "range"
    /\ \/ /\ prompt.items > 0
          /\ prompt' = [prompt EXCEPT !.items = @ - 1]
          /\ IF t.stdin # "nil" /\ WriteOk
             THEN /\ proc' = [proc EXCEPT !.turnsIn = @ + 1, !.stdinLog = @ + 1]
                  /\ UNCHANGED writer
             ELSE /\ proc' = WriterReturn(proc)
                  /\ writer' = [writer EXCEPT
                         !.pc = "done",
                         !.failed = (t.stdin # "nil" /\ ~WriteOk)]
       \/ /\ prompt.items = 0 /\ prompt.closed
          /\ proc' = WriterReturn(proc)
          /\ writer' = [writer EXCEPT !.pc = "done"]
          /\ UNCHANGED prompt
    /\ UNCHANGED <<c, t, gen, files, reader, fwd, rsp, caller, ctxDone, hist>>

\* ------------------------------------------------------------- Client
\* the transport c.transport points to: the current one, or an earlier one
\* whose Connect failed (never connected, nothing running)
DeadTransport == NewTransport(FALSE, FALSE)
ClientTransport == IF c.transport = gen THEN t ELSE DeadTransport

PromptKinds == {"nil", "string", "chan", "other"}

\* the channel a prompt of kind pk is: nil becomes an empty closed channel
PromptChans(pk) ==
    IF pk = "chan"
    THEN {[items |-> i, closed |-> cl] : i \in 0..MaxPrompt, cl \in BOOLEAN}
    ELSE IF pk = "nil" THEN {[items |-> 0, closed |-> TRUE]}
    ELSE {NoPrompt}

\* `again` marks a call that directly follows a call of the same operation
Returned(r) == hist' = [hist EXCEPT !.ret = [r EXCEPT !.again = (hist.ret.op = r.op)]]

\* NewSubprocessCLITransport fails on a prompt of another type and when
\* findCLI finds no executable
NewTransportError(pk, found) ==
    IF pk = "other" THEN ErrPromptType
    ELSE IF ~found THEN Errorf("Claude Code not found")
    ELSE NoError

\* variant: Client.Connect without the connected check, so that a connected
\* client constructs and connects another transport
ClientConnectAlways(pks, founds, outcomes) ==
    /\ caller.pc = "idle"
    /\ \E pk \in pks, found \in founds :
         IF NewTransportError(pk, found) # NoError
         THEN /\ Returned(Ret("Connect", NewTransportError(pk, found)))
              /\ UNCHANGED <<c, t, gen, proc, files, prompt, reader, writer>>
         ELSE /\ gen <= MaxConnects
              /\ \E outcome \in outcomes, ch \in PromptChans(pk) :
                   /\ Connect(NewTransport(pk # "string", FALSE),
                              gen + 1, outcome)
                   /\ prompt' = ch
                   /\ c' = [connected |-> outcome = "ok",
                            transport |-> gen + 1]
                   /\ Returned(Ret("Connect",
                        ConnectError(NewTransport(pk # "string", FALSE),
                                     outcome)))
              /\ gen' = gen + 1
    /\ UNCHANGED <<fwd, rsp, caller, ctxDone>>

\* Client.Connect(ctx, prompt)
ClientConnectWith(pks, founds, outcomes) ==
    /\ caller.pc = "idle"
    /\ IF c.connected
       THEN /\ Returned(Ret("Connect", NoError))
            /\ UNCHANGED <<c, t, gen, proc, files, prompt, reader, writer>>
       ELSE \E pk \in pks, found \in founds :
              IF NewTransportError(pk, found) # NoError
              THEN /\ Returned(Ret("Connect", NewTransportError(pk, found)))
                   /\ UNCHANGED <<c, t, gen, proc, files, prompt, reader, writer>>
              ELSE /\ gen < MaxConnects
                   /\ ~t.connected
                   /\ \E outcome \in outcomes, ch \in PromptChans(pk) :
                        /\ Connect(NewTransport(pk # "string", FALSE),
                                   gen + 1, outcome)
                        /\ prompt' = ch
                        /\ c' = [connected |-> outcome = "ok",
                                 transport |-> gen + 1]
                        /\ Returned(Ret("Connect",
                             ConnectError(NewTransport(pk # "string", FALSE),
                                          outcome)))
                   /\ gen' = gen + 1
    /\ UNCHANGED <<fwd, rsp, caller, ctxDone>>

ClientConnect == ClientConnectWith(PromptKinds, BOOLEAN, ConnectOutcomes)

\* variant: SendRequest without the streaming-mode check
SendRequestErrorAnyMode(t0, n) ==
    IF t0.stdin = "nil" THEN ErrNoStdin
    ELSE IF n > 0 /\ ~WriteOk THEN ErrWrite
    ELSE NoError

\* SubprocessCLITransport.SendRequest(messages, metadata) with n messages
SendRequestError(t0, n) ==
    IF ~t0.isStreaming THEN ErrNotStreaming
    ELSE IF t0.stdin = "nil" THEN ErrNoStdin
    ELSE IF n > 0 /\ ~WriteOk THEN ErrWrite
    ELSE NoError

SendRequestWrites(t0, n) ==
    IF SendRequestError(t0, n) = NoError THEN n ELSE 0

QueryPromptKinds == {"string", "chan", "slice", "other"}

\* the messages Client.Query builds from its prompt: one for a string, one
\* per element of a channel or slice
QueryLens(pk) ==
    IF pk = "string" THEN {1}
    ELSE IF pk = "other" THEN {0}
    ELSE 0..MaxPrompt

\* variant: Client.Query without the connected check
QueryResultUnchecked(pk, n) ==
    LET in == [Ret("Query", NoError) EXCEPT !.pk = pk, !.n = n]
    IN  IF pk = "other" THEN [in EXCEPT !.err = ErrPromptType]
        ELSE LET cons == IF pk = "chan" THEN n ELSE 0
             IN  IF n > 0
                 THEN [in EXCEPT
                         !.err = SendRequestError(ClientTransport, n),
                         !.wrote = SendRequestWrites(ClientTransport, n),
                         !.consumed = cons]
                 ELSE [in EXCEPT !.consumed = cons]

\* Client.Query(ctx, prompt, sessionID): prompt is a string, a closed channel
\* of n messages, a slice of n messages, or a value of another type
QueryResult(pk, n) ==
    LET in == [Ret("Query", NoError) EXCEPT !.pk = pk, !.n = n]
    IN  IF ~c.connected THEN [in EXCEPT !.err = ErrNotConnected]
        ELSE IF pk = "other" THEN [in EXCEPT !.err = ErrPromptType]
        ELSE LET cons == IF pk = "chan" THEN n ELSE 0
             IN  IF n > 0
                 THEN [in EXCEPT
                         !.err = SendRequestError(ClientTransport, n),
                         !.wrote = SendRequestWrites(ClientTransport, n),
                         !.consumed = cons]
                 ELSE [in EXCEPT !.consumed = cons]

ClientQueryWith(pks) ==
    /\ caller.pc = "idle"
    /\ \E pk \in pks :
       \E n \in QueryLens(pk) :
         LET r == QueryResult(pk, n)
         IN  /\ proc.stdinLog + r.wrote <= MaxWrites
             /\ proc' = [proc EXCEPT !.stdinLog = @ + r.wrote,
                                     !.turnsIn = @ + r.wrote]
             /\ Returned(r)
    /\ UNCHANGED <<c, t, gen, files, prompt, reader, writer, fwd, rsp, caller,
                   ctxDone>>

ClientQuery == ClientQueryWith(QueryPromptKinds)

\* ------------------------------------------- session_id of an envelope
\* the "session_id" entry of a caller's message map or of SendRequest's
\* metadata: absent, a string, or a value of another type
NoEntry == [present |-> FALSE, isString |-> FALSE, str |-> ""]
StringEntry(v) == [present |-> TRUE, isString |-> TRUE, str |-> v]
OtherEntry == [present |-> TRUE, isString |-> FALSE, str |-> ""]

MsgSessionIDs == {NoEntry, StringEntry(""), StringEntry("caller"), OtherEntry}
SessionArgs == {"", "session-1"}

\* client.go:135-137  if sessionID == "" { sessionID = "default" }
QuerySessionID(arg) == IF arg = "" THEN "default" ELSE arg

\* client.go:158-160  if _, ok := msg["session_id"]; !ok { msg[...] = sessionID }
InjectSessionID(entry, sessionID) ==
    IF entry.present THEN entry ELSE StringEntry(sessionID)

\* mapToMessageData: SessionID is the entry when it is a string, else ""
MapSessionID(entry) ==
    IF entry.present /\ entry.isString THEN entry.str ELSE ""

\* MessageData.SessionID of the message Client.Query builds: for a string
\* prompt the sessionID itself, for a channel or slice element the entry
\* of its map after injection
QueryMessageSessionID(pk, entry, arg) ==
    IF pk = "string" THEN QuerySessionID(arg)
    ELSE MapSessionID(InjectSessionID(entry, QuerySessionID(arg)))

\* variant: SendRequest leaves an empty SessionID alone
SendRequestSessionIDKept(sid, meta) == sid

\* transport.go:406-412: an empty SessionID becomes metadata["session_id"]
\* when that is a string, "default" otherwise
SendRequestSessionID(sid, meta) ==
    IF sid # "" THEN sid
    ELSE IF meta.present /\ meta.isString THEN meta.str
    ELSE "default"

\* json.Marshal of MessageData: session_id has omitempty
Envelope(sid) == [hasSessionID |-> sid # "", session_id |-> sid]

\* the envelope SendRequest writes for a message of Client.Query
QueryEnvelope(pk, entry, arg) ==
    Envelope(SendRequestSessionID(QueryMessageSessionID(pk, entry, arg),
                                  StringEntry(QuerySessionID(arg))))

\* Client.Query seen with the content of what it writes: the elements of
\* the prompt carry the given session_id entries
ClientQueryEnvelopes ==
    /\ caller.pc = "idle"
    /\ \E pk \in {"string", "chan", "slice"}, arg \in SessionArgs :
       \E n \in QueryLens(pk) :
       \E entries \in [1..n -> IF pk = "string" THEN {NoEntry}
                                               ELSE MsgSessionIDs] :
         LET r == QueryResult(pk, n)
             written == [i \in 1..r.wrote |->
                           [env |-> QueryEnvelope(pk, entries[i], arg),
                            pk |-> pk, entry |-> entries[i], arg |-> arg]]
         IN  /\ proc.stdinLog + r.wrote <= MaxWrites
             /\ proc' = [proc EXCEPT !.stdinLog = @ + r.wrote,
                                     !.turnsIn = @ + r.wrote,
                                     !.stdinEnv = @ \o written]
             /\ Returned(r)
    /\ UNCHANGED <<c, t, gen, files, prompt, reader, writer, fwd, rsp, caller,
                   ctxDone>>

\* variant: Disconnect releases the bridge but leaves the connected flag
ClientDisconnectKeepsFlag ==
    /\ caller.pc = "idle"
    /\ IF c.transport # 0
       THEN /\ c' = [c EXCEPT !.transport = 0]
            /\ IF c.transport = gen
               THEN /\ t' = DisconnectT(t)
                    /\ proc' = DisconnectProc(t)
                    /\ files' = DisconnectFiles(t, gen)
               ELSE UNCHANGED <<t, proc, files>>
            /\ Returned([Ret("Disconnect", DisconnectError(ClientTransport))
                            EXCEPT !.g = c.transport])
       ELSE /\ Returned(Ret("Disconnect", NoError))
            /\ UNCHANGED <<c, t, proc, files>>
    /\ UNCHANGED <<gen, prompt, reader, writer, fwd, rsp, caller, ctxDone>>

\* Client.Disconnect()
ClientDisconnect ==
    /\ caller.pc = "idle"
    /\ IF c.transport # 0
       THEN /\ c' = [connected |-> FALSE, transport |-> 0]
            /\ IF c.transport = gen
               THEN /\ t' = DisconnectT(t)
                    /\ proc' = DisconnectProc(t)
                    /\ files' = DisconnectFiles(t, gen)
               ELSE UNCHANGED <<t, proc, files>>
            /\ Returned([Ret("Disconnect", DisconnectError(ClientTransport))
                            EXCEPT !.g = c.transport])
       ELSE /\ Returned(Ret("Disconnect", NoError))
            /\ UNCHANGED <<c, t, proc, files>>
    /\ UNCHANGED <<gen, prompt, reader, writer, fwd, rsp, caller, ctxDone>>

\* SubprocessCLITransport.Interrupt(): not implemented, whatever the mode
TransportInterruptError(t0) == ErrInterrupt

\* variant: Client.Interrupt without the connected check
InterruptErrorUnchecked == TransportInterruptError(ClientTransport)

\* Client.Interrupt()
InterruptError ==
    IF ~c.connected THEN ErrNotConnected
    ELSE TransportInterruptError(ClientTransport)

\* neither path signals the child
ClientInterrupt ==
    /\ caller.pc = "idle"
    /\ Returned(Ret("Interrupt", InterruptError))
    /\ UNCHANGED <<c, t, gen, proc, files, prompt, reader, writer, fwd, rsp,
                   caller, ctxDone>>

\* the application constructs a SubprocessCLITransport itself and calls
\* its Connect
TransportConnect ==
    /\ caller.pc = "idle"
    /\ ~t.connected
    /\ gen < MaxConnects
    /\ \E pk \in {"string", "chan"}, close \in BOOLEAN,
          outcome \in ConnectOutcomes :
       \E ch \in PromptChans(pk) :
         /\ Connect(NewTransport(pk # "string", close), gen + 1, outcome)
         /\ prompt' = ch
         /\ Returned([Ret("TransportConnect",
                 ConnectError(NewTransport(pk # "string", close), outcome))
                 EXCEPT !.g = gen + 1])
    /\ gen' = gen + 1
    /\ caller' = [caller EXCEPT !.direct = gen + 1]
    /\ UNCHANGED <<c, fwd, rsp, ctxDone>>

\* ... and calls its Disconnect, any number of times
TransportDisconnect ==
    /\ caller.pc = "idle"
    /\ caller.direct = gen /\ gen > 0
    /\ t' = DisconnectT(t)
    /\ proc' = DisconnectProc(t)
    /\ files' = DisconnectFiles(t, gen)
    /\ Returned([Ret("TransportDisconnect", DisconnectError(t))
                   EXCEPT !.g = gen])
    /\ UNCHANGED <<c, gen, prompt, reader, writer, fwd, rsp, caller, ctxDone>>

\* ... and calls Connect again on the transport it has disconnected, once
\* the reader and the writer of the earlier connection have ended: the
\* channels are those the constructor made (transport.go:52-54)
TransportReconnect ==
    /\ caller.pc = "idle"
    /\ caller.direct = gen /\ gen > 0
    /\ caller.reconnects < MaxReconnects
    /\ ~t.connected /\ t.kills > 0
    /\ reader.pc = "done" /\ writer.pc \in {"idle", "done"}
    /\ \E outcome \in ConnectOutcomes :
         /\ Connect(t, gen, outcome)
         /\ Returned([Ret("TransportConnect", ConnectError(t, outcome))
                        EXCEPT !.g = gen])
    /\ caller' = [caller EXCEPT !.reconnects = @ + 1]
    /\ UNCHANGED <<c, gen, prompt, fwd, rsp, ctxDone>>

\* Client.ReceiveMessages(ctx): starts forwarding goroutine k
ReceiveMessagesError ==
    IF ~c.connected THEN ErrNotConnected
    ELSE IF ~ClientTransport.connected THEN ErrTransportNotConnected
    ELSE NoError

StartFwd(k, kind) ==
    fwd' = [fwd EXCEPT ![k] = [IdleFwd EXCEPT !.pc = "select", !.kind = kind,
                                              !.gen = gen]]

ClientReceiveMessages ==
    /\ caller.pc = "idle"
    /\ IF ReceiveMessagesError = NoError
       THEN /\ caller.calls < MaxCalls
            /\ StartFwd(caller.calls + 1, "messages")
            /\ caller' = [caller EXCEPT !.pc = "reading",
                                         !.k = caller.calls + 1,
                                         !.calls = caller.calls + 1]
       ELSE UNCHANGED <<fwd, caller>>
    /\ Returned(Ret("ReceiveMessages", ReceiveMessagesError))
    /\ UNCHANGED <<c, t, gen, proc, files, prompt, reader, writer, rsp, ctxDone>>

\* Client.ReceiveResponse(ctx): forwarding goroutine k plus relay goroutine k
ClientReceiveResponse ==
    /\ caller.pc = "idle"
    /\ IF ReceiveMessagesError = NoError
       THEN /\ caller.calls < MaxCalls
            /\ StartFwd(caller.calls + 1, "response")
            /\ rsp' = [rsp EXCEPT ![caller.calls + 1] =
                          [IdleRsp EXCEPT !.pc = "range"]]
            /\ caller' = [caller EXCEPT !.pc = "reading",
                                         !.k = caller.calls + 1,
                                         !.calls = caller.calls + 1]
       ELSE UNCHANGED <<fwd, rsp, caller>>
    /\ Returned(Ret("ReceiveResponse", ReceiveMessagesError))
    /\ UNCHANGED <<c, t, gen, proc, files, prompt, reader, writer, ctxDone>>

\* ------------------------------ the forwarding goroutine of ReceiveMessages
\* (client.go:97-124) and the relay loop of Query (query.go:107-130)
Deliver(k, msg) ==
    hist' = [hist EXCEPT !.delivered = Append(@, [call |-> k, msg |-> msg])]

\* variant: the output channel is closed without the deferred Disconnect
FwdReturnCloseOnly(k) ==
    /\ fwd' = [fwd EXCEPT ![k].pc = "done", ![k].closed = TRUE,
                          ![k].msg = NoFrame]
    /\ UNCHANGED <<t, proc, files>>

\* return from the goroutine: Query first runs its deferred t.Disconnect(),
\* then the output channel is closed
FwdReturn(k) ==
    /\ fwd' = [fwd EXCEPT ![k].pc = "done", ![k].closed = TRUE,
                          ![k].msg = NoFrame]
    /\ IF fwd[k].kind = "query" /\ fwd[k].gen = gen
       THEN /\ t' = DisconnectT(t)
            /\ proc' = DisconnectProc(t)
            /\ files' = DisconnectFiles(t, gen)
       ELSE UNCHANGED <<t, proc, files>>

\* case data, ok := <-dataChan with ok true: parse, then forward or skip
\* variant: a frame that fails ParseMessage ends the forwarding goroutine
FwdRecvStops(k) ==
    /\ fwd[k].pc = "select"
    /\ fwd[k].gen = gen
    /\ t.msgChan # <<>>
    /\ LET data == Head(t.msgChan)
       IN  /\ t' = [t EXCEPT !.msgChan = Tail(@)]
           /\ fwd' = [fwd EXCEPT
                  ![k].taken = Append(@, data),
                  ![k].pc = IF ParseOk(data) THEN "send" ELSE "done",
                  ![k].closed = ~ParseOk(data),
                  ![k].msg = IF ParseOk(data) THEN data ELSE NoFrame]
    /\ UNCHANGED <<c, gen, proc, files, prompt, reader, writer, rsp, caller,
                   ctxDone, hist>>

FwdRecv(k) ==
    /\ fwd[k].pc = "select"
    /\ fwd[k].gen = gen
    /\ t.msgChan # <<>>
    /\ LET data == Head(t.msgChan)
       IN  /\ t' = [t EXCEPT !.msgChan = Tail(@)]
           /\ fwd' = [fwd EXCEPT
                  ![k].taken = Append(@, data),
                  ![k].pc = IF ParseOk(data) THEN "send" ELSE "select",
                  ![k].msg = IF ParseOk(data) THEN data ELSE NoFrame]
    /\ UNCHANGED <<c, gen, proc, files, prompt, reader, writer, rsp, caller,
                   ctxDone, hist>>

\* case data, ok := <-dataChan with ok false
FwdClosed(k) ==
    /\ fwd[k].pc = "select"
    /\ fwd[k].gen = gen
    /\ t.msgChan = <<>> /\ t.msgChanClosed
    /\ FwdReturn(k)
    /\ UNCHANGED <<c, gen, prompt, reader, writer, rsp, caller, ctxDone, hist>>

\* variant: cancellation is noticed only while waiting for an inbound message
FwdCtxDoneReceiving(k) ==
    /\ fwd[k].pc = "select"
    /\ ctxDone
    /\ FwdReturn(k)
    /\ UNCHANGED <<c, gen, prompt, reader, writer, rsp, caller, ctxDone, hist>>

\* case <-ctx.Done(), in either select
FwdCtxDone(k) ==
    /\ fwd[k].pc \in {"select", "send"}
    /\ ctxDone
    /\ FwdReturn(k)
    /\ UNCHANGED <<c, gen, prompt, reader, writer, rsp, caller, ctxDone, hist>>

\* case msgChan <- msg, received by the caller (ReceiveMessages, Query)
FwdDeliver(k) ==
    /\ fwd[k].pc = "send"
    /\ fwd[k].kind \in {"messages", "query"}
    /\ caller.pc = "reading" /\ caller.k = k
    /\ Deliver(k, fwd[k].msg)
    /\ fwd' = [fwd EXCEPT ![k].pc = "select", ![k].msg = NoFrame]
    /\ UNCHANGED <<c, t, gen, proc, files, prompt, reader, writer, rsp, caller,
                   ctxDone>>

\* case msgChan <- msg, received by the relay goroutine of ReceiveResponse
FwdToRsp(k) ==
    /\ fwd[k].pc = "send"
    /\ fwd[k].kind = "response"
    /\ rsp[k].pc = "range"
    /\ rsp' = [rsp EXCEPT ![k].pc = "send", ![k].msg = fwd[k].msg]
    /\ fwd' = [fwd EXCEPT ![k].pc = "select", ![k].msg = NoFrame]
    /\ UNCHANGED <<c, t, gen, proc, files, prompt, reader, writer, caller,
                   ctxDone, hist>>

\* ------------------------ the relay goroutine of ReceiveResponse (208-221)
\* range allMsgs ends because the forwarder closed its channel
RspClosed(k) ==
    /\ rsp[k].pc = "range"
    /\ fwd[k].closed
    /\ rsp' = [rsp EXCEPT ![k].pc = "done", ![k].closed = TRUE]
    /\ UNCHANGED <<c, t, gen, proc, files, prompt, reader, writer, fwd, caller,
                   ctxDone, hist>>

\* variant: the relay keeps forwarding after a Result
RspAfterSendAll(r) ==
    [r EXCEPT !.pc = "range", !.msg = NoFrame,
              !.sawResult = @ \/ isResult(r.msg)]

\* the relay stops after forwarding a Result
RspAfterSend(r) ==
    IF isResult(r.msg)
    THEN [r EXCEPT !.pc = "done", !.closed = TRUE, !.sawResult = TRUE,
                   !.msg = NoFrame]
    ELSE [r EXCEPT !.pc = "range", !.msg = NoFrame]

\* case respChan <- msg
RspDeliver(k) ==
    /\ rsp[k].pc = "send"
    /\ caller.pc = "reading" /\ caller.k = k
    /\ Deliver(k, rsp[k].msg)
    /\ rsp' = [rsp EXCEPT ![k] = RspAfterSend(rsp[k])]
    /\ UNCHANGED <<c, t, gen, proc, files, prompt, reader, writer, fwd, caller,
                   ctxDone>>

\* case <-ctx.Done()
RspCtxDone(k) ==
    /\ rsp[k].pc = "send"
    /\ ctxDone
    /\ rsp' = [rsp EXCEPT ![k].pc = "done", ![k].closed = TRUE,
                          ![k].msg = NoFrame]
    /\ UNCHANGED <<c, t, gen, proc, files, prompt, reader, writer, fwd, caller,
                   ctxDone, hist>>

\* --------------------------------------------------------------- Query
\* variant: the error message carries no text
ErrorMessageBare(err) == [NoFrame EXCEPT !.type = "system", !.part = "error"]

\* &SystemMessage{Subtype: "error", Data: {"error": err.Error()}}
ErrorMessage(err) ==
    [NoFrame EXCEPT !.type = "system", !.part = "error", !.text = err.msg]

\* Query(ctx, prompt, options): the goroutine constructs and connects a
\* transport with closeStdinAfterPrompt = true; on any failure it sends one
\* error message instead
QueryWith(pks, founds, outcomes) ==
    /\ caller.pc = "idle"
    /\ ~c.connected
    /\ caller.calls < MaxCalls
    /\ LET k == caller.calls + 1
           failed(err) == [IdleFwd EXCEPT !.pc = "errsend", !.kind = "query",
                                          !.err = err,
                                          !.msg = ErrorMessage(err)]
       IN  \E pk \in pks, found \in founds :
             IF NewTransportError(pk, found) # NoError
             THEN /\ fwd' = [fwd EXCEPT ![k] =
                                 failed(NewTransportError(pk, found))]
                  /\ UNCHANGED <<t, gen, proc, files, prompt, reader, writer>>
             ELSE /\ gen < MaxConnects
                  /\ ~t.connected
                  /\ \E outcome \in outcomes, ch \in PromptChans(pk) :
                       /\ Connect(NewTransport(pk # "string", TRUE),
                                  gen + 1, outcome)
                       /\ prompt' = ch
                       /\ fwd' = [fwd EXCEPT ![k] =
                            IF outcome = "ok"
                            THEN [IdleFwd EXCEPT !.pc = "select",
                                                 !.kind = "query",
                                                 !.gen = gen + 1]
                            ELSE failed(ConnectError(
                                     NewTransport(pk # "string", TRUE),
                                     outcome))]
                  /\ gen' = gen + 1
    /\ caller' = [caller EXCEPT !.pc = "reading", !.k = caller.calls + 1,
                                 !.calls = caller.calls + 1]
    /\ Returned(Ret("QueryFn", NoError))
    /\ UNCHANGED <<c, rsp, ctxDone>>

Query == QueryWith({"string", "chan", "other"}, BOOLEAN, ConnectOutcomes)

\* msgChan <- &SystemMessage{Subtype: "error"}; return
QueryErrSend(k) ==
    /\ fwd[k].pc = "errsend"
    /\ caller.pc = "reading" /\ caller.k = k
    /\ Deliver(k, fwd[k].msg)
    /\ fwd' = [fwd EXCEPT ![k].pc = "done", ![k].closed = TRUE,
                          ![k].msg = NoFrame]
    /\ UNCHANGED <<c, t, gen, proc, files, prompt, reader, writer, rsp, caller,
                   ctxDone>>

\* ------------------------------------------------------------ the caller
\* the channel the caller ranges over has been closed
OutClosed(k) == IF fwd[k].kind = "response" THEN rsp[k].closed ELSE fwd[k].closed

CallerClosed ==
    /\ caller.pc = "reading"
    /\ OutClosed(caller.k)
    /\ caller' = [caller EXCEPT !.pc = "idle"]
    /\ UNCHANGED <<c, t, gen, proc, files, prompt, reader, writer, fwd, rsp,
                   ctxDone, hist>>

CancelCtx ==
    /\ ~ctxDone
    /\ ctxDone' = TRUE
    /\ UNCHANGED <<c, t, gen, proc, files, prompt, reader, writer, fwd, rsp,
                   caller, hist>>

\* ------------------------------------------------- session data flow
\* a session whose child is spawned: the caller connects, sends turns,
\* consumes responses and disconnects, each call made in the state that
\* accepts it
SessionConnect == ~c.connected /\ ClientConnectWith({"nil"}, {TRUE}, {"ok"})
SessionQuery == c.connected /\ ClientQueryWith({"string"})
SessionReceiveMessages == c.connected /\ ClientReceiveMessages
SessionReceiveResponse == c.connected /\ ClientReceiveResponse
SessionDisconnect == c.connected /\ ClientDisconnect
OneShotQuery == QueryWith({"string", "chan"}, {TRUE}, {"ok"})

Forwarders ==
    \E k \in Calls :
        \/ FwdRecv(k) \/ FwdClosed(k)
        \/ FwdDeliver(k) \/ FwdToRsp(k)
        \/ RspClosed(k) \/ RspDeliver(k)

Next ==
    \/ SessionConnect \/ SessionQuery \/ SessionDisconnect
    \/ SessionReceiveMessages \/ SessionReceiveResponse
    \/ OneShotQuery
    \/ CallerClosed
    \/ ChildEmit \/ ChildExit
    \/ ReaderScan \/ ReaderSend \/ ReaderEOF \/ ReaderErrSend \/ ReaderWait
    \/ streamInput
    \/ Forwarders

Spec == Init /\ [][Next]_vars

\* ------------------------------------------------------- the API surface
\* every way Connect can end, every prompt Query accepts, Disconnect in any
\* state; the child writes plain messages only
ApiTypes == {"assistant"}
ApiChildEmit == ChildWrite(ApiTypes)

NextApi ==
    \/ ClientConnect \/ ClientQuery \/ ClientInterrupt \/ ClientDisconnect
    \/ TransportConnect \/ TransportDisconnect
    \/ ApiChildEmit \/ ChildExit
    \/ ReaderScan \/ ReaderSend \/ ReaderEOF \/ ReaderErrSend \/ ReaderWait
    \/ streamInput

SpecApi == Init /\ [][NextApi]_vars

\* ------------------------------------ concurrent Connect and Disconnect
\* Client has no lock (client.go:35-39): concurrent calls interleave at
\* every read and write of c.connected and c.transport.  A call of a method
\* on a nil c.transport panics.
ParPc(g) == caller.par.pc[g]
ParGoto(g, pc) == [caller.par EXCEPT !.pc[g] = pc]
ParRunning == \A g \in Goroutines : ParPc(g) # "panic"

ParStep(g, par) ==
    /\ caller' = [caller EXCEPT !.par = par]
    /\ UNCHANGED <<t, gen, proc, files, prompt, reader, writer, fwd, rsp,
                   ctxDone, hist>>

\* client.go:57-59  if c.connected { return nil }
ParConnectCheck(g) ==
    /\ ParRunning /\ ParPc(g) = "idle"
    /\ ParStep(g, ParGoto(g, IF c.connected THEN "idle" ELSE "connect_new"))
    /\ UNCHANGED c

\* client.go:69-74  t := NewSubprocessCLITransport(...); c.transport = t
ParConnectNew(g) ==
    /\ ParRunning /\ ParPc(g) = "connect_new"
    /\ Len(caller.par.bridges) < MaxBridges
    /\ ParStep(g, [ParGoto(g, "connect_call") EXCEPT
                      !.bridges = Append(@, NewTransport(TRUE, FALSE))])
    /\ c' = [c EXCEPT !.transport = Len(caller.par.bridges) + 1]

\* client.go:76  c.transport.Connect()
ParConnectCall(g) ==
    /\ ParRunning /\ ParPc(g) = "connect_call"
    /\ IF c.transport = 0
       THEN ParStep(g, ParGoto(g, "panic"))
       ELSE ParStep(g, [ParGoto(g, "connect_flag") EXCEPT
                !.bridges[c.transport] = ConnectT(@, "ok")])
    /\ UNCHANGED c

\* client.go:80  c.connected = true
ParConnectFlag(g) ==
    /\ ParRunning /\ ParPc(g) = "connect_flag"
    /\ ParStep(g, ParGoto(g, "idle"))
    /\ c' = [c EXCEPT !.connected = TRUE]

\* client.go:228  if c.transport != nil
ParDisconnectCheck(g) ==
    /\ ParRunning /\ ParPc(g) = "idle"
    /\ caller.par.bridges # <<>>
    /\ ParStep(g, ParGoto(g, IF c.transport # 0 THEN "disconnect_call"
                                               ELSE "idle"))
    /\ UNCHANGED c

\* client.go:229  err := c.transport.Disconnect()
ParDisconnectCall(g) ==
    /\ ParRunning /\ ParPc(g) = "disconnect_call"
    /\ IF c.transport = 0
       THEN ParStep(g, ParGoto(g, "panic"))
       ELSE ParStep(g, [ParGoto(g, "disconnect_nil") EXCEPT
                !.bridges[c.transport] = DisconnectT(@)])
    /\ UNCHANGED c

\* client.go:230  c.transport = nil
ParDisconnectNil(g) ==
    /\ ParRunning /\ ParPc(g) = "disconnect_nil"
    /\ ParStep(g, ParGoto(g, "disconnect_flag"))
    /\ c' = [c EXCEPT !.transport = 0]

\* client.go:231  c.connected = false
ParDisconnectFlag(g) ==
    /\ ParRunning /\ ParPc(g) = "disconnect_flag"
    /\ ParStep(g, ParGoto(g, "idle"))
    /\ c' = [c EXCEPT !.connected = FALSE]

NextPar ==
    \E g \in Goroutines :
        \/ ParConnectCheck(g) \/ ParConnectNew(g)
        \/ ParConnectCall(g) \/ ParConnectFlag(g)
        \/ ParDisconnectCheck(g) \/ ParDisconnectCall(g)
        \/ ParDisconnectNil(g) \/ ParDisconnectFlag(g)

SpecPar == Init /\ [][NextPar]_vars

\* ------------------------------------------------------ the error path
\* a streaming session whose prompt channel feeds the writer, whose child
\* may write fragments that overflow the accumulation buffer and may exit
\* with any status, and whose caller consumes ReceiveMessages
ErrConnect == ~c.connected /\ ClientConnectWith({"chan"}, {TRUE}, {"ok"})
ErrChildEmit == ChildWrite(ApiTypes)
ErrForward(k) == FwdRecv(k) \/ FwdClosed(k) \/ FwdDeliver(k)

NextErr ==
    \/ ErrConnect \/ SessionReceiveMessages \/ CallerClosed
    \/ ErrChildEmit \/ ChildFragment \/ ChildExit
    \/ ReaderScan \/ ReaderSend \/ ReaderEOF \/ ReaderErrSend \/ ReaderWait
    \/ streamInput
    \/ \E k \in Calls : ErrForward(k)

\* every goroutine that can take a step eventually takes it; the child is
\* not obliged to write or to exit, nor the caller to make a call
FairErr ==
    /\ WF_vars(ReaderScan) /\ WF_vars(ReaderSend) /\ WF_vars(ReaderEOF)
    /\ WF_vars(ReaderErrSend) /\ WF_vars(ReaderWait)
    /\ WF_vars(streamInput)
    /\ WF_vars(CallerClosed)
    /\ \A k \in Calls : WF_vars(ErrForward(k))

SpecErr == Init /\ [][NextErr]_vars /\ FairErr

\* ------------------------------------------------- outbound envelopes
\* a streaming session in which the caller sends turns of every prompt
\* shape; the child may exit, after which writes fail
NextWire ==
    \/ SessionConnect \/ ClientQueryEnvelopes \/ SessionDisconnect
    \/ ChildExit \/ streamInput

SpecWire == Init /\ [][NextWire]_vars

\* ------------------------------------------------------- framing faults
\* a streaming session whose child writes, one line at a time, well-formed
\* envelopes, fragments that overflow the accumulation buffer, and lines
\* that json.Unmarshal into MessageData rejects whatever follows them (a
\* complete JSON object whose known field has the wrong JSON type, or text
\* that is no prefix of a JSON document)
ChildLine(part, len) ==
    /\ proc.state = "running"
    /\ proc.turn <= proc.turnsIn
    /\ hist.nextId <= MaxFrameLines
    /\ proc' = [proc EXCEPT !.stdout =
           Append(@, Line(hist.nextId, "assistant", proc.turn, part, len))]
    /\ hist' = [hist EXCEPT !.nextId = @ + 1]
    /\ UNCHANGED <<c, t, gen, files, prompt, reader, writer, fwd, rsp, caller, ctxDone>>

ChildWhole == ChildLine("whole", 64)
ChildHead == ChildLine("head", FragmentLen)
ChildGarbage == ChildLine("garbage", 64)

NextFrame ==
    \/ ErrConnect \/ SessionReceiveMessages \/ CallerClosed
    \/ ChildWhole \/ ChildHead \/ ChildGarbage \/ ChildExit
    \/ ReaderScan \/ ReaderSend \/ ReaderEOF \/ ReaderErrSend \/ ReaderWait
    \/ streamInput
    \/ \E k \in Calls : ErrForward(k)

SpecFrame == Init /\ [][NextFrame]_vars /\ FairErr

\* ---- the envelopes decoded
\* content blocks: every variant with each required field present, absent
\* or of another type, the optional fields of tool_result, an unrecognised
\* type, a type that is no string, no type, and an element that is no object
TextBlocks ==
    {[NoBlockData EXCEPT !.type = Str("text"), !.text = x] :
        x \in {Absent, Str(""), Str("Hello"), Bool(TRUE)}}
ThinkingBlocks ==
    {[NoBlockData EXCEPT !.type = Str("thinking"), !.thinking = x,
                         !.signature = y] :
        x \in {Absent, Str("Processing...")}, y \in {Absent, Str("sig-456")}}
ToolUseBlocks ==
    {[NoBlockData EXCEPT !.type = Str("tool_use"), !.id = x, !.name = y,
                         !.input = Map("input")] :
        x \in {Absent, Str("tool-123")}, y \in {Absent, Str("Read")}}
    \cup {[NoBlockData EXCEPT !.type = Str("tool_use"),
                              !.id = Str("tool-123"), !.name = Str("Read"),
                              !.input = z] :
        z \in {Absent, Str("path")}}
ToolResultBlocks ==
    {[NoBlockData EXCEPT !.type = Str("tool_result"), !.tool_use_id = x,
                         !.content = Str("File not found"), !.is_error = z] :
        x \in {Absent, Str("tool-789")},
        z \in {Absent, Bool(TRUE), Bool(FALSE)}}
    \cup {[NoBlockData EXCEPT !.type = Str("tool_result"),
                              !.tool_use_id = Str("tool-789")]}
OtherBlocks ==
    {[NoBlockData EXCEPT !.type = x] : x \in {Absent, Bool(TRUE), Str("image")}}
    \cup {[NoBlockData EXCEPT !.shape = "string"]}

TestBlocks ==
    TextBlocks \cup ThinkingBlocks \cup ToolUseBlocks \cup ToolResultBlocks
    \cup OtherBlocks

\* content lists of up to n blocks
RECURSIVE BlockLists(_)
BlockLists(n) ==
    IF n = 0 THEN {<<>>}
    ELSE BlockLists(n - 1)
         \cup {Append(bs, b) : bs \in {x \in BlockLists(n - 1) : Len(x) = n - 1},
                               b \in TestBlocks}

Bodies ==
    {[model |-> m, content |-> List("content"), blocks |-> bs] :
        m \in {Absent, Str(""), Str("claude-3"), Bool(TRUE)},
        bs \in BlockLists(MaxBlocks)}
    \cup {[model |-> m, content |-> x, blocks |-> <<>>] :
        m \in {Absent, Str("claude-3")}, x \in {Absent, Str("Hello")}}

\* user and assistant envelopes; they hold no number, so the JSON object
\* and the Go map are the same
ChatEnvelopes ==
    {[EmptyMap EXCEPT !.type = Str(ty), !.message = Map("message"),
                      !.body = b] :
        ty \in {"user", "assistant"}, b \in Bodies}
    \cup {[EmptyMap EXCEPT !.type = Str(ty), !.message = x] :
        ty \in {"user", "assistant"}, x \in {Absent, Str("test")}}

SystemEnvelopes ==
    {[EmptyMap EXCEPT !.type = Str("system"), !.subtype = st, !.data = d,
                      !.session_id = sid, !.cwd = cwd] :
        st \in {Absent, Str(""), Str("init"), Bool(TRUE)},
        d \in {Absent, Map("data")},
        sid \in {Absent, Str("session-123")},
        cwd \in {Absent, Str("/tmp")}}

UntypedEnvelopes ==
    {[EmptyMap EXCEPT !.type = x, !.message = m] :
        x \in {Absent, Bool(TRUE), Str(""), Str("unknown")},
        m \in {Absent, Str("test")}}

\* result envelopes on the wire: every required field present, zero or not,
\* or of another JSON type; every optional field present or not
ResultWires ==
    {[EmptyMap EXCEPT !.type = Str("result"), !.subtype = st,
                      !.duration_ms = d, !.duration_api_ms = da,
                      !.is_error = ie, !.num_turns = nt, !.session_id = sid,
                      !.total_cost_usd = cost, !.usage = us, !.result = res] :
        st \in {Str(""), Str("success")},
        d \in {Num(0), Num(1500), Str("1500")},
        da \in {Num(0), Num(1200)},
        ie \in {Bool(FALSE), Bool(TRUE)},
        nt \in {Num(0), Num(1)},
        sid \in {Str(""), Str("session-123")},
        cost \in {Absent, Num(1)},
        us \in {Absent, Map("usage")},
        res \in {Absent, Str("completed")}}

WireEnvelopes ==
    ChatEnvelopes \cup SystemEnvelopes \cup UntypedEnvelopes \cup ResultWires

\* result maps handed to ParseMessage: each required field absent, zero,
\* non-zero or of another type, without optional fields; and each optional
\* field absent, null, of its type or of another type
ResultRequired ==
    {[EmptyMap EXCEPT !.type = Str("result"), !.subtype = st,
                      !.duration_ms = d, !.duration_api_ms = da,
                      !.is_error = ie, !.num_turns = nt, !.session_id = sid] :
        st \in {Absent, Str(""), Str("success"), Bool(TRUE)},
        d \in {Absent, GoInt(0), GoInt(1500), GoFloat(1500), Str("1500")},
        da \in {Absent, GoInt(0), GoInt(1200), Str("1200")},
        ie \in {Absent, Bool(FALSE), Bool(TRUE), Str("false")},
        nt \in {Absent, GoInt(0), GoInt(1), Str("1")},
        sid \in {Absent, Str(""), Str("session-123"), Bool(TRUE)}}

ResultOptional ==
    {[EmptyMap EXCEPT !.type = Str("result"), !.subtype = Str("success"),
                      !.duration_ms = GoInt(1500), !.duration_api_ms = GoInt(1200),
                      !.is_error = Bool(FALSE), !.num_turns = GoInt(1),
                      !.session_id = Str("session-123"),
                      !.total_cost_usd = cost, !.usage = us, !.result = res] :
        cost \in {Absent, Null, GoFloat(1), Str("0.01")},
        us \in {Absent, Null, Map("usage"), Str("none")},
        res \in {Absent, Null, Str("completed"), Bool(TRUE)}}

ParserInputs ==
    ChatEnvelopes \cup SystemEnvelopes \cup UntypedEnvelopes
    \cup ResultRequired \cup ResultOptional

\* ---- the three steps

\* readMessages decodes one line (transport.go:317-319); a line it cannot
\* decode stays in the accumulation buffer
DecodeLine ==
    /\ hist.parse.stage = "idle"
    /\ \E w \in WireEnvelopes :
         hist' = [hist EXCEPT !.parse =
             IF UnmarshalTypeOk(w)
             THEN [@ EXCEPT !.stage = "channel", !.wire = w,
                            !.data = Unmarshal(w)]
             ELSE [@ EXCEPT !.stage = "buffered", !.wire = w]]
    /\ UNCHANGED <<c, t, gen, proc, files, prompt, reader, writer, fwd, rsp,
                   caller, ctxDone>>

\* the forwarding goroutine converts and parses what it received
\* (client.go:110-115, query.go:117-122)
ForwardDecoded ==
    /\ hist.parse.stage = "channel"
    /\ LET m == messageDataToMap(hist.parse.data)
           r == ParseMessage(m)
       IN  hist' = [hist EXCEPT !.parse =
               [@ EXCEPT !.stage = IF r.err = NoParseError
                                   THEN "delivered" ELSE "skipped",
                         !.in = m, !.out = r]]
    /\ UNCHANGED <<c, t, gen, proc, files, prompt, reader, writer, fwd, rsp,
                   caller, ctxDone>>

\* a caller hands a map to ParseMessage
ParseDirect ==
    /\ hist.parse.stage = "idle"
    /\ \E m \in ParserInputs :
         hist' = [hist EXCEPT !.parse =
             [@ EXCEPT !.stage = "parsed", !.in = m, !.out = ParseMessage(m)]]
    /\ UNCHANGED <<c, t, gen, proc, files, prompt, reader, writer, fwd, rsp,
                   caller, ctxDone>>

NextParse == DecodeLine \/ ForwardDecoded \/ ParseDirect

SpecParse == Init /\ [][NextParse]_vars

\* ------------------------------------------------- Query and cancellation
\* one Query whose connect succeeds; the child answers and may exit, the
\* caller may cancel its context at any time and receives when it chooses
QueryForward(k) == FwdRecv(k) \/ FwdClosed(k) \/ FwdCtxDone(k)

NextCancel ==
    \/ OneShotQuery \/ CancelCtx \/ CallerClosed
    \/ ErrChildEmit \/ ChildExit
    \/ ReaderScan \/ ReaderSend \/ ReaderEOF \/ ReaderErrSend \/ ReaderWait
    \/ streamInput
    \/ \E k \in Calls : QueryForward(k) \/ FwdDeliver(k)

\* every goroutine of the package that can take a step eventually takes it;
\* the caller is obliged neither to receive nor to cancel
FairCancel ==
    /\ WF_vars(ReaderScan) /\ WF_vars(ReaderSend) /\ WF_vars(ReaderEOF)
    /\ WF_vars(ReaderErrSend) /\ WF_vars(ReaderWait)
    /\ WF_vars(streamInput)
    /\ \A k \in Calls : WF_vars(QueryForward(k))

SpecCancel == Init /\ [][NextCancel]_vars /\ FairCancel

\* ------------------------------------------------------------ QuerySync
\* sysMsg.Subtype == "error" with a string Data["error"]: only the messages
\* Query builds itself have that key, a system envelope of the child never
\* has it after messageDataToMap
IsErrorMessage(msg) == msg.type = "system" /\ msg.part = "error"

\* variant: the error message is not part of what QuerySync returns
QuerySyncStepDropsError(messages, msg) ==
    IF IsErrorMessage(msg)
    THEN [messages |-> messages, returns |-> TRUE,
          err |-> NewCLIConnectionError(msg.text)]
    ELSE [messages |-> Append(messages, msg), returns |-> FALSE,
          err |-> NoError]

\* one pass of the loop body (query.go:154-161): append, then return on an
\* error message
QuerySyncStep(messages, msg) ==
    IF IsErrorMessage(msg)
    THEN [messages |-> Append(messages, msg), returns |-> TRUE,
          err |-> NewCLIConnectionError(msg.text)]
    ELSE [messages |-> Append(messages, msg), returns |-> FALSE,
          err |-> NoError]

\* QuerySync calls Query and starts ranging over its channel
QuerySyncCall == QueryWith({"string", "chan", "other"}, BOOLEAN, ConnectOutcomes)

\* QuerySync receives msg from call k's channel and runs the loop body
SyncTake(k, msg) ==
    LET r == QuerySyncStep(caller.sync, msg)
    IN  /\ caller' = IF r.returns
                     THEN [caller EXCEPT !.pc = "idle", !.sync = <<>>]
                     ELSE [caller EXCEPT !.sync = r.messages]
        /\ hist' = [hist EXCEPT
               !.delivered = Append(@, [call |-> k, msg |-> msg]),
               !.ret = IF r.returns
                       THEN [Ret("QuerySync", r.err) EXCEPT
                                !.messages = r.messages, !.n = k]
                       ELSE @]

\* a relayed message arrives
SyncRecv(k) ==
    /\ fwd[k].pc = "send"
    /\ fwd[k].kind = "query"
    /\ caller.pc = "reading" /\ caller.k = k
    /\ SyncTake(k, fwd[k].msg)
    /\ fwd' = [fwd EXCEPT ![k].pc = "select", ![k].msg = NoFrame]
    /\ UNCHANGED <<c, t, gen, proc, files, prompt, reader, writer, rsp, ctxDone>>

\* the error message of a Query that could not start arrives
SyncRecvError(k) ==
    /\ fwd[k].pc = "errsend"
    /\ caller.pc = "reading" /\ caller.k = k
    /\ SyncTake(k, fwd[k].msg)
    /\ fwd' = [fwd EXCEPT ![k].pc = "done", ![k].closed = TRUE,
                          ![k].msg = NoFrame]
    /\ UNCHANGED <<c, t, gen, proc, files, prompt, reader, writer, rsp, ctxDone>>

\* the range loop ends on the closed channel: return messages, nil
SyncClosed ==
    /\ caller.pc = "reading"
    /\ fwd[caller.k].closed
    /\ caller' = [caller EXCEPT !.pc = "idle", !.sync = <<>>]
    /\ hist' = [hist EXCEPT !.ret =
           [Ret("QuerySync", NoError) EXCEPT !.messages = caller.sync,
                                             !.n = caller.k]]
    /\ UNCHANGED <<c, t, gen, proc, files, prompt, reader, writer, fwd, rsp,
                   ctxDone>>

SyncTypes == {"assistant", "system", "result"}
SyncChildEmit == ChildWrite(SyncTypes)

NextSync ==
    \/ QuerySyncCall \/ SyncClosed
    \/ \E k \in Calls : SyncRecv(k) \/ SyncRecvError(k) \/ FwdRecv(k) \/ FwdClosed(k)
    \/ SyncChildEmit \/ ChildExit
    \/ ReaderScan \/ ReaderSend \/ ReaderEOF \/ ReaderErrSend \/ ReaderWait
    \/ streamInput

SpecSync == Init /\ [][NextSync]_vars

\* ------------------------------------------- cancellation in a session
\* a streaming Client session and one-shot Queries under a context the
\* caller may cancel at any time; the caller receives when it chooses
CtxTypes == {"assistant", "result"}
CtxChildEmit == ChildWrite(CtxTypes)
CtxForward(k) == FwdRecv(k) \/ FwdClosed(k) \/ FwdCtxDone(k) \/ FwdToRsp(k)
CtxRelay(k) == RspClosed(k) \/ RspCtxDone(k)

NextCtx ==
    \/ ErrConnect \/ SessionReceiveMessages \/ SessionReceiveResponse
    \/ OneShotQuery \/ CancelCtx \/ CallerClosed
    \/ CtxChildEmit \/ ChildExit
    \/ ReaderScan \/ ReaderSend \/ ReaderEOF \/ ReaderErrSend \/ ReaderWait
    \/ streamInput
    \/ \E k \in Calls : CtxForward(k) \/ CtxRelay(k) \/ FwdDeliver(k) \/ RspDeliver(k)

\* every goroutine of the package that can take a step eventually takes it;
\* the caller is obliged neither to receive nor to cancel
FairCtx ==
    /\ WF_vars(ReaderScan) /\ WF_vars(ReaderSend) /\ WF_vars(ReaderEOF)
    /\ WF_vars(ReaderErrSend) /\ WF_vars(ReaderWait)
    /\ WF_vars(streamInput)
    /\ \A k \in Calls : WF_vars(CtxForward(k)) /\ WF_vars(CtxRelay(k))

SpecCtx == Init /\ [][NextCtx]_vars /\ FairCtx

\* ------------------------------------------- objects split across lines
\* the child writes JSON objects whole or split over adjacent lines, with
\* blank lines between the parts, and may stop in the middle of an object
SplitLen == 300000
SplitShapes ==
    {<<"head", "tail">>, <<"head", "blank", "tail">>,
     <<"head", "mid", "tail">>, <<"head", "blank", "mid", "blank", "tail">>,
     <<"blank", "whole", "blank">>, <<"head", "mid">>}

RECURSIVE SplitLines(_, _, _)
SplitLines(shape, id, turn) ==
    IF shape = <<>> THEN <<>>
    ELSE <<Line(id, "assistant", turn, Head(shape),
                IF Head(shape) = "blank" THEN 0 ELSE SplitLen)>>
         \o SplitLines(Tail(shape), id, turn)

\* one object, of the next id, written as the lines of `shape`
ChildSplit ==
    /\ proc.state = "running"
    /\ proc.turn <= proc.turnsIn
    /\ hist.nextId <= MaxLines
    /\ \E shape \in SplitShapes :
         proc' = [proc EXCEPT
                    !.stdout = @ \o SplitLines(shape, hist.nextId, proc.turn)]
    /\ hist' = [hist EXCEPT !.nextId = @ + 1]
    /\ UNCHANGED <<c, t, gen, files, prompt, reader, writer, fwd, rsp, caller, ctxDone>>

NextSplit ==
    \/ ErrConnect \/ SessionReceiveMessages \/ CallerClosed
    \/ ChildSplit \/ ChildExit
    \/ ReaderScan \/ ReaderSend \/ ReaderEOF \/ ReaderErrSend \/ ReaderWait
    \/ streamInput
    \/ \E k \in Calls : ErrForward(k)

SpecSplit == Init /\ [][NextSplit]_vars

\* ------------------------------------------------------ Query, every way
\* Query with every prompt and every outcome of the construction and of
\* Connect; the caller receives when it chooses and may cancel
QueryRelay(k) ==
    \/ FwdRecv(k) \/ FwdClosed(k) \/ FwdCtxDone(k) \/ FwdDeliver(k)
    \/ QueryErrSend(k)

NextQuery ==
    \/ Query \/ CancelCtx \/ CallerClosed
    \/ ErrChildEmit \/ ChildExit
    \/ ReaderScan \/ ReaderSend \/ ReaderEOF \/ ReaderErrSend \/ ReaderWait
    \/ streamInput
    \/ \E k \in Calls : QueryRelay(k)

SpecQuery == Init /\ [][NextQuery]_vars

\* ------------------------------------------- the Client, call after call
\* one caller making the calls of Client in any order, with every prompt
\* and every outcome of Connect
ClientForwarders ==
    \E k \in Calls :
        \/ FwdRecv(k) \/ FwdClosed(k) \/ FwdDeliver(k) \/ FwdToRsp(k)
        \/ RspClosed(k) \/ RspDeliver(k)

NextClient ==
    \/ ClientConnect \/ ClientQuery \/ ClientInterrupt \/ ClientDisconnect
    \/ ClientReceiveMessages \/ ClientReceiveResponse \/ CallerClosed
    \/ ErrChildEmit \/ ChildExit
    \/ ReaderScan \/ ReaderSend \/ ReaderEOF \/ ReaderErrSend \/ ReaderWait
    \/ streamInput
    \/ ClientForwarders

SpecClient == Init /\ [][NextClient]_vars

\* ------------------------------------- one transport, connected again
\* the application drives a SubprocessCLITransport itself: Connect,
\* Disconnect, and Connect once more on the same object
NextReconnect ==
    \/ TransportConnect \/ TransportDisconnect \/ TransportReconnect
    \/ ApiChildEmit \/ ChildExit
    \/ ReaderScan \/ ReaderSend \/ ReaderEOF \/ ReaderErrSend \/ ReaderWait
    \/ streamInput

SpecReconnect == Init /\ [][NextReconnect]_vars

\* ---------------------------------------------- the stdin handle, by step
\* streamInput, SendRequest and Disconnect on a streaming transport, each
\* split at its reads of t.stdin and at the start and end of its calls on
\* the handle.  SendRequest and Disconnect hold t.mu from start to end;
\* streamInput takes no lock.
\* for msg := range prompt { if t.stdin == nil { break } ...
streamInputTake ==
    /\ writer.pc = "range"
    /\ \/ /\ prompt.items > 0
          /\ prompt' = [prompt EXCEPT !.items = @ - 1]
          /\ writer' = [writer EXCEPT
                 !.pc = IF t.stdin = "nil" THEN "defer" ELSE "checked"]
       \/ /\ prompt.items = 0 /\ prompt.closed
          /\ writer' = [writer EXCEPT !.pc = "defer"]
          /\ UNCHANGED prompt
    /\ UNCHANGED <<c, t, gen, proc, files, reader, fwd, rsp, caller, ctxDone, hist>>

\* fmt.Fprintln(t.stdin, ...) begins: t.stdin is read again, and a nil
\* writer is a nil dereference
streamInputWrite ==
    /\ writer.pc = "checked"
    /\ writer' = [writer EXCEPT
           !.pc = IF t.stdin = "nil" THEN "panic" ELSE "writing"]
    /\ UNCHANGED <<c, t, gen, proc, files, prompt, reader, fwd, rsp, caller,
                   ctxDone, hist>>

\* ... and returns: the line is written, or the loop is left on the error
streamInputWritten ==
    /\ writer.pc = "writing"
    /\ IF WriteOk
       THEN /\ proc' = [proc EXCEPT !.turnsIn = @ + 1, !.stdinLog = @ + 1]
            /\ writer' = [writer EXCEPT !.pc = "range"]
       ELSE /\ proc' = proc
            /\ writer' = [writer EXCEPT !.pc = "defer", !.failed = TRUE]
    /\ UNCHANGED <<c, t, gen, files, prompt, reader, fwd, rsp, caller, ctxDone, hist>>

\* the deferred function: if t.closeStdinAfterPrompt && t.stdin != nil
streamInputDefer ==
    /\ writer.pc = "defer"
    /\ writer' = [writer EXCEPT
           !.pc = IF t.closeStdinAfterPrompt /\ t.stdin # "nil"
                  THEN "closecheck" ELSE "done"]
    /\ UNCHANGED <<c, t, gen, proc, files, prompt, reader, fwd, rsp, caller,
                   ctxDone, hist>>

\* t.stdin.Close() begins, on the handle as it is now
streamInputClose ==
    /\ writer.pc = "closecheck"
    /\ writer' = [writer EXCEPT
           !.pc = IF t.stdin = "nil" THEN "panic" ELSE "closing"]
    /\ UNCHANGED <<c, t, gen, proc, files, prompt, reader, fwd, rsp, caller,
                   ctxDone, hist>>

\* ... and returns
streamInputClosed ==
    /\ writer.pc = "closing"
    /\ proc' = [proc EXCEPT !.stdinOpen = FALSE]
    /\ writer' = [writer EXCEPT !.pc = "done"]
    /\ UNCHANGED <<c, t, gen, files, prompt, reader, fwd, rsp, caller, ctxDone, hist>>

\* SendRequest with one message: t.mu.Lock(), the checks, Fprintln begins
SendRequestBegin ==
    /\ caller.mu = "free"
    /\ caller.direct = gen /\ gen > 0
    /\ proc.stdinLog < MaxWrites
    /\ IF SendRequestError(t, 0) = NoError
       THEN caller' = [caller EXCEPT !.mu = "SendRequest writing"]
       ELSE caller' = caller
    /\ Returned(Ret("SendRequest", SendRequestError(t, 0)))
    /\ UNCHANGED <<c, t, gen, proc, files, prompt, reader, writer, fwd, rsp, ctxDone>>

\* Fprintln returns, SendRequest returns and releases t.mu
SendRequestEnd ==
    /\ caller.mu = "SendRequest writing"
    /\ caller' = [caller EXCEPT !.mu = "free"]
    /\ proc' = IF WriteOk
               THEN [proc EXCEPT !.turnsIn = @ + 1, !.stdinLog = @ + 1]
               ELSE proc
    /\ Returned(Ret("SendRequest", IF WriteOk THEN NoError ELSE ErrWrite))
    /\ UNCHANGED <<c, t, gen, files, prompt, reader, writer, fwd, rsp, ctxDone>>

\* Disconnect: t.mu.Lock(), the connected check, t.stdin.Close() begins
DisconnectBegin ==
    /\ caller.mu = "free"
    /\ caller.direct = gen /\ gen > 0
    /\ t.connected
    /\ caller' = [caller EXCEPT
           !.mu = IF t.stdin # "nil" THEN "Disconnect closing"
                  ELSE "Disconnect"]
    /\ UNCHANGED <<c, t, gen, proc, files, prompt, reader, writer, fwd, rsp,
                   ctxDone, hist>>

\* Close returns; t.stdin = nil, Kill, Wait, the stderr file, connected =
\* false; Disconnect returns and releases t.mu
DisconnectEnd ==
    /\ caller.mu \in {"Disconnect closing", "Disconnect"}
    /\ caller' = [caller EXCEPT !.mu = "free"]
    /\ t' = DisconnectT(t)
    /\ proc' = DisconnectProc(t)
    /\ files' = DisconnectFiles(t, gen)
    /\ Returned([Ret("TransportDisconnect", DisconnectError(t)) EXCEPT !.g = gen])
    /\ UNCHANGED <<c, gen, prompt, reader, writer, fwd, rsp, ctxDone>>

\* a streaming transport the application connects itself
StdinConnect ==
    /\ caller.pc = "idle"
    /\ gen < MaxConnects
    /\ \E close \in BOOLEAN, ch \in PromptChans("chan") :
         /\ Connect(NewTransport(TRUE, close), gen + 1, "ok")
         /\ prompt' = ch
         /\ Returned([Ret("TransportConnect", NoError) EXCEPT !.g = gen + 1])
    /\ gen' = gen + 1
    /\ caller' = [caller EXCEPT !.direct = gen + 1]
    /\ UNCHANGED <<c, fwd, rsp, ctxDone>>

NextStdin ==
    \/ StdinConnect
    \/ streamInputTake \/ streamInputWrite \/ streamInputWritten
    \/ streamInputDefer \/ streamInputClose \/ streamInputClosed
    \/ SendRequestBegin \/ SendRequestEnd
    \/ DisconnectBegin \/ DisconnectEnd
    \/ ApiChildEmit \/ ChildExit
    \/ ReaderScan \/ ReaderSend \/ ReaderEOF \/ ReaderErrSend \/ ReaderWait

SpecStdin == Init /\ [][NextStdin]_vars

\* =================================================================== claims
RECURSIVE DeliveredFrom(_, _)
DeliveredFrom(d, k) ==
    IF d = <<>> THEN <<>>
    ELSE IF Head(d).call = k THEN <<Head(d).msg>> \o DeliveredFrom(Tail(d), k)
         ELSE DeliveredFrom(Tail(d), k)

\* the messages call k has handed to the caller, in order
DeliveredTo(k) == DeliveredFrom(hist.delivered, k)

RECURSIVE FramesOf(_, _)
FramesOf(h, g) ==
    IF h = <<>> THEN <<>>
    ELSE IF Head(h).g = g THEN <<Head(h).f>> \o FramesOf(Tail(h), g)
         ELSE FramesOf(Tail(h), g)

DecodedOf(g) == FramesOf(hist.decoded, g)
EnqueuedOf(g) == FramesOf(hist.enqueued, g)

RECURSIVE UpToResult(_)
UpToResult(sq) ==
    IF sq = <<>> THEN <<>>
    ELSE IF isResult(Head(sq)) THEN <<Head(sq)>>
         ELSE <<Head(sq)>> \o UpToResult(Tail(sq))

RECURSIVE NonControl(_)
NonControl(sq) ==
    IF sq = <<>> THEN <<>>
    ELSE IF Head(sq).type = "control_response" THEN NonControl(Tail(sq))
         ELSE <<Head(sq)>> \o NonControl(Tail(sq))

IsPrefix(a, b) == Len(a) <= Len(b) /\ a = SubSeq(b, 1, Len(a))
IsSuffix(a, b) == Len(a) <= Len(b) /\ a = SubSeq(b, Len(b) - Len(a) + 1, Len(b))
ResponseCalls == {k \in Calls : fwd[k].kind = "response"}

\* C1: once ReceiveResponse has forwarded the first Result and closed its
\* channel, no step takes another frame from the inbound channel on its
\* behalf: what its forwarding goroutine has received no longer grows.
C1_StopsConsuming ==
    [][\A k \in ResponseCalls :
          rsp[k].closed /\ rsp[k].sawResult => fwd'[k].taken = fwd[k].taken]_vars

\* C2: the channel of ReceiveResponse yields, in inbound order, exactly the
\* decodable messages its call received up to and including the first
\* Result, never anything after it, and is complete when it closes; a call
\* that is the first consumer of its transport receives the inbound
\* sequence from its start, without a gap, through that Result.
FirstOn(k) == \A j \in Calls : j < k => fwd[j].gen # fwd[k].gen

C3_SecondTurnDelivered ==
    ( /\ {1, 2} \subseteq ResponseCalls
      /\ fwd[1].gen = fwd[2].gen
      /\ ~ctxDone
      /\ rsp[1].sawResult /\ rsp[2].sawResult
      /\ Last(DeliveredTo(1)).turn = 1
      /\ Last(DeliveredTo(2)).turn = 2 )
    => \A i \in 1..Len(hist.enqueued) :
          LET e == hist.enqueued[i]
          IN  e.g = fwd[2].gen /\ e.f.turn = 2 /\ ParseOk(e.f)
                => \E j \in 1..Len(DeliveredTo(2)) : DeliveredTo(2)[j] = e.f

\* C4: messages reach the caller in the order their frames were decoded:
\* of two delivered messages, the one delivered first was decoded first.
DecodeIndex(f) == CHOOSE i \in 1..Len(hist.decoded) : hist.decoded[i].f = f

C4_DeliveryInDecodeOrder ==
    \A i, j \in 1..Len(hist.delivered) :
        LET a == hist.delivered[i].msg
            b == hist.delivered[j].msg
        IN  i < j /\ a.id > 0 /\ b.id > 0
              => /\ \E x \in 1..Len(hist.decoded) : hist.decoded[x].f = a
                 /\ \E y \in 1..Len(hist.decoded) : hist.decoded[y].f = b
                 /\ DecodeIndex(a) < DecodeIndex(b)

\* three messages delivered over two calls
C4_Witness ==
    /\ Len(hist.delivered) = 3
    /\ hist.delivered[1].call = 1
    /\ hist.delivered[3].call = 2

\* C5: the reader never drops a decoded non-control frame: each one is in
\* the inbound channel's history exactly once, in decode order, or is the
\* one the reader is blocked sending; the channel never exceeds its capacity
\* and holds the frames not yet received.
C5_ReaderNeverDrops ==
    LET pending == IF reader.pc = "send" THEN <<reader.data>> ELSE <<>>
    IN  /\ NonControl(DecodedOf(gen)) = EnqueuedOf(gen) \o pending
        /\ IsSuffix(t.msgChan, EnqueuedOf(gen))
        /\ Len(t.msgChan) <= MsgChanCap
        /\ \A i, j \in 1..Len(hist.enqueued) :
              i # j => hist.enqueued[i].f.id # hist.enqueued[j].f.id

\* the reader holds a decoded frame while the inbound channel is full
C5_Witness ==
    /\ reader.pc = "send"
    /\ Len(t.msgChan) = MsgChanCap
    /\ Len(EnqueuedOf(gen)) = MsgChanCap

\* C6: when Disconnect returns, the child is dead and the reader and writer
\* goroutines have terminated.
C6_DisconnectJoins ==
    hist.ret.op = "Disconnect" /\ hist.ret.wasConnected =>
        /\ proc.state = "exited"
        /\ reader.pc = "done"
        /\ writer.pc \in {"idle", "done"}

\* C7: Disconnect, on the Client or on the transport, returns no error,
\* also when it directly follows another Disconnect, and closes stdin,
\* kills the child and removes the stderr file at most once per transport.
IsDisconnect(r) == r.op \in {"Disconnect", "TransportDisconnect"}

C7_DisconnectIdempotent ==
    /\ IsDisconnect(hist.ret) => hist.ret.err = NoError
    /\ t.stdinCloses <= 1 /\ t.kills <= 1 /\ t.removes <= 1

\* a second Disconnect in a row on a transport that was cleaned up once
C7_Witness ==
    /\ hist.ret.op = "TransportDisconnect" /\ hist.ret.again
    /\ t.stdinCloses = 1 /\ t.kills = 1 /\ t.removes = 1

\* C8: after a Disconnect call returns, the stderr capture file created by
\* that bridge's Connect no longer exists.
C8_StderrFileRemoved ==
    IsDisconnect(hist.ret) /\ hist.ret.g # 0 => hist.ret.g \notin files

\* C9: Client.Query on a client that is not connected returns the
\* Connection error, writes nothing to a child's stdin and takes nothing
\* from a channel prompt.
C9_QueryWhileDisconnected ==
    hist.ret.op = "Query" /\ ~hist.ret.wasConnected =>
        /\ hist.ret.err = ErrNotConnected
        /\ hist.ret.err.type = "CLIConnectionError"
        /\ hist.ret.wrote = 0
        /\ hist.ret.consumed = 0

\* Query with a non-empty channel prompt after the client was disconnected
C9_Witness ==
    /\ hist.ret.op = "Query" /\ ~hist.ret.wasConnected
    /\ hist.ret.pk = "chan" /\ hist.ret.n > 0
    /\ c.transport = 0 /\ caller.direct # gen /\ t.kills = 1

\* C10 as stated: Client.Query on a connected client whose bridge is not
\* streaming is rejected with the not-streaming error and writes nothing.
C10_RejectedUnsupported ==
    hist.ret.op = "Query" /\ hist.ret.wasConnected /\ ~hist.ret.wasStreaming =>
        /\ hist.ret.err = ErrNotStreaming
        /\ hist.ret.wrote = 0

\* C10 amended: such a Query writes nothing, and when its prompt yields at
\* least one message it is rejected with the not-streaming error, which is
\* not a Connection error.
C10_RejectedWhenMessages ==
    hist.ret.op = "Query" /\ hist.ret.wasConnected /\ ~hist.ret.wasStreaming =>
        /\ hist.ret.wrote = 0
        /\ (hist.ret.n > 0 =>
              /\ hist.ret.err = ErrNotStreaming
              /\ hist.ret.err.type # "CLIConnectionError"
              /\ hist.ret.err # NoError)

\* a one-message channel prompt sent to a client connected with a string
C10_Witness ==
    /\ hist.ret.op = "Query" /\ hist.ret.wasConnected /\ ~hist.ret.wasStreaming
    /\ hist.ret.pk = "chan" /\ hist.ret.n = 1
    /\ hist.ret.err = ErrNotStreaming

\* C11: a Client.Connect call on a connected client returns nil and changes
\* nothing: no transport is constructed, no child spawned, and the client's
\* transport handle and connected flag stay as they were.
ConnectStep == hist'.ret.op = "Connect" /\ hist'.ret # hist.ret

C11_ConnectWhileConnected ==
    [][ConnectStep /\ c.connected =>
          /\ hist'.ret.err = NoError
          /\ c' = c /\ t' = t /\ gen' = gen
          /\ proc' = proc /\ files' = files
          /\ reader' = reader /\ writer' = writer]_vars

\* Connect has returned on a client that was already connected to a child
\* that is still running
C11_Witness ==
    /\ hist.ret.op = "Connect" /\ hist.ret.wasConnected
    /\ c.connected /\ c.transport = gen /\ gen > 0
    /\ proc.state = "running"

\* C12: under concurrent Client.Connect and Client.Disconnect calls on one
\* Client at most one of its bridges has a live child, and when no call is
\* in progress every bridge with a live child is the one the client holds.
LiveBridges == {i \in DOMAIN caller.par.bridges : caller.par.bridges[i].connected}

C12_OneLiveReachableBridge ==
    /\ Cardinality(LiveBridges) <= 1
    /\ (\A g \in Goroutines : ParPc(g) = "idle")
          => \A i \in LiveBridges : c.transport = i

\* C13: once the child has exited by itself and its stdout has been read to
\* the end, the inbound channel is eventually closed, and so is the channel
\* of the caller who is consuming ReceiveMessages, whatever errors the
\* reader reported on the way.
ChildEnded == proc.state = "exited" /\ proc.stdout = <<>> /\ ~proc.killed

C13_FiniteWhenChildEnds ==
    (ChildEnded /\ caller.pc = "reading")
        ~> (t.msgChanClosed /\ caller.k > 0 /\ fwd[caller.k].closed)

\* C14: when the child has exited with a non-zero status and the session
\* has ended (the reader has returned and the caller's channel is closed),
\* the caller has been handed exactly one Process error.
ProcessErrorsDelivered ==
    {i \in 1..Len(hist.delivered) : hist.delivered[i].msg.part = "process"}

C14_ProcessErrorDelivered ==
    ( /\ reader.pc = "done" /\ proc.exitCode # 0 /\ ~proc.killed
      /\ caller.k > 0 /\ fwd[caller.k].closed )
    => Cardinality(ProcessErrorsDelivered) = 1

\* C15: reporting an error never blocks the reader: whenever it is about to
\* send on the error channel there is room, and the channel never holds
\* more than one error.
C15_ErrorReportNeverBlocks ==
    /\ reader.pc = "err" => Len(t.errChan) < ErrChanCap
    /\ Len(t.errChan) <= ErrChanCap

\* C16: when the writer loop has ended on a failed write to the child's
\* stdin, a write error is on the transport's error channel.
C16_WriteFailureReported ==
    writer.failed => \E i \in 1..Len(t.errChan) : t.errChan[i] = "write"

\* C17: Client.Interrupt on a client that is not connected returns the
\* Connection error; on a connected client whose bridge is not streaming it
\* fails with the transport's not-implemented error, which is not a
\* Connection error.
C17_InterruptRejected ==
    hist.ret.op = "Interrupt" =>
        /\ ~hist.ret.wasConnected =>
              /\ hist.ret.err = ErrNotConnected
              /\ hist.ret.err.type = "CLIConnectionError"
        /\ hist.ret.wasConnected /\ ~hist.ret.wasStreaming =>
              /\ hist.ret.err = ErrInterrupt
              /\ hist.ret.err # NoError
              /\ hist.ret.err.type # "CLIConnectionError"

\* Interrupt has returned on a client connected with a string prompt whose
\* child is running
C17_Witness ==
    /\ hist.ret.op = "Interrupt"
    /\ hist.ret.wasConnected /\ ~hist.ret.wasStreaming
    /\ c.connected /\ proc.state = "running"

\* C18: Client.Interrupt on a client connected in streaming mode returns no
\* error and has sent the child an interrupt signal.
C18_InterruptSignals ==
    hist.ret.op = "Interrupt" /\ hist.ret.wasConnected /\ hist.ret.wasStreaming
        => hist.ret.err = NoError /\ proc.interrupts > 0

\* C19: every envelope Client.Query has written to the child's stdin
\* carries a non-empty session_id: the caller's own when its message has a
\* non-empty string there, otherwise the sessionID argument of the call,
\* otherwise "default".
ExpectedSessionID(w) ==
    IF w.pk # "string" /\ w.entry.present /\ w.entry.isString /\ w.entry.str # ""
    THEN w.entry.str
    ELSE IF w.arg # "" THEN w.arg
    ELSE "default"

C19_EnvelopeHasSessionID ==
    \A i \in 1..Len(proc.stdinEnv) :
        LET w == proc.stdinEnv[i]
        IN  /\ w.env.hasSessionID
            /\ w.env.session_id # ""
            /\ w.env.session_id = ExpectedSessionID(w)

\* two envelopes written: one for a message whose map has an empty
\* session_id and no sessionID argument, one keeping the caller's own
C19_Witness ==
    \E i, j \in 1..Len(proc.stdinEnv) :
        /\ proc.stdinEnv[i].entry = StringEntry("") /\ proc.stdinEnv[i].arg = ""
        /\ proc.stdinEnv[i].env.session_id = "default"
        /\ proc.stdinEnv[j].entry = StringEntry("caller")
        /\ proc.stdinEnv[j].env.session_id = "caller"

\* C20: a control_response frame is never placed on the inbound channel
\* nor delivered to the caller, and skipping it leaves the frames around it
\* alone: the accumulation buffer is empty when the next line is read, and
\* every line read so far has been decoded, none skipped with it.
IsControl(f) == f.type = "control_response"
Consecutive(sq) == \A i \in 1..(Len(sq) - 1) : sq[i + 1].id = sq[i].id + 1

C20_ControlResponseFiltered ==
    /\ \A i \in 1..Len(t.msgChan) : ~IsControl(t.msgChan[i])
    /\ \A i \in 1..Len(hist.enqueued) : ~IsControl(hist.enqueued[i].f)
    /\ \A i \in 1..Len(hist.delivered) : ~IsControl(hist.delivered[i].msg)
    /\ ~IsControl(reader.data)
    /\ \A k \in Calls : ~IsControl(fwd[k].msg) /\ ~IsControl(rsp[k].msg)
    /\ reader.pc = "scan" => reader.jsonBuffer = <<>>
    /\ Consecutive(DecodedOf(gen) \o proc.stdout)

\* a control response was decoded between two frames that were both
\* delivered to the caller
C20_Witness ==
    \E i \in 2..(Len(hist.decoded) - 1) :
        /\ IsControl(hist.decoded[i].f)
        /\ \E x, y \in 1..Len(hist.delivered) :
              /\ hist.delivered[x].msg = hist.decoded[i - 1].f
              /\ hist.delivered[y].msg = hist.decoded[i + 1].f

\* C21: a frame that fails type dispatch is frame-local.  It yields no
\* Message, it does not stop the forwarding loop (the loop of a call on the
\* current bridge ends only when the inbound channel is closed and
\* drained), and the frames around it are
\* delivered: what a ReceiveMessages or Query call has handed over, plus the
\* message it is about to hand over, is exactly the frames it has received
\* that ParseMessage accepts, in order.
DirectCalls == {k \in Calls : fwd[k].kind \in {"messages", "query"}}

C21_DispatchFailureIsLocal ==
    /\ \A i \in 1..Len(hist.delivered) :
          hist.delivered[i].msg.type \in MessageTypes
    /\ \A k \in DirectCalls :
          LET pending == IF fwd[k].pc = "send" THEN <<fwd[k].msg>> ELSE <<>>
          IN  /\ DeliveredTo(k) \o pending = SelectSeqOk(fwd[k].taken)
              /\ (fwd[k].closed /\ fwd[k].gen = gen)
                    => t.msgChanClosed /\ t.msgChan = <<>>

\* a call received a frame of unrecognised type and then a valid one, and
\* has delivered the valid one
C21_Witness ==
    \E k \in DirectCalls :
        \E i \in 1..(Len(fwd[k].taken) - 1) :
            /\ ~ParseOk(fwd[k].taken[i])
            /\ ParseOk(fwd[k].taken[i + 1])
            /\ \E x \in 1..Len(hist.delivered) :
                  /\ hist.delivered[x].call = k
                  /\ hist.delivered[x].msg = fwd[k].taken[i + 1]

\* C22: a malformed-JSON frame is frame-local: the line that cannot be
\* decoded into an envelope is dropped, so a well-formed line read after
\* nothing but malformed lines is decoded on its own and never stays in the
\* accumulation buffer.
C22_MalformedFrameIsLocal ==
    \A i \in 1..Len(reader.jsonBuffer) :
        reader.jsonBuffer[i].part = "whole"
            => \E j \in 1..(i - 1) : reader.jsonBuffer[j].part # "garbage"

\* C23: every overflow of the accumulation buffer is recovered from, not
\* only the first of a stream: whenever the reader has found the buffer
\* over the limit and reset it, the overflow error is emitted and the reader
\* is back at its scanner with an empty buffer, ready to decode the next
\* well-formed line.
C23_EveryOverflowRecovers ==
    (reader.pc = "err" /\ reader.err = "overflow")
        ~> (reader.pc = "scan" /\ reader.jsonBuffer = <<>>)

\* what the wire promises, field by field
ValidBlock(b) ==
    /\ b.shape = "map"
    /\ IsString(b.type)
    /\ b.type.s \in BlockTypes
    /\ b.type.s = "text" => IsString(b.text)
    /\ b.type.s = "thinking" => IsString(b.thinking) /\ IsString(b.signature)
    /\ b.type.s = "tool_use" =>
          IsString(b.id) /\ IsString(b.name) /\ b.input.kind = "map"
    /\ b.type.s = "tool_result" => IsString(b.tool_use_id)

\* the block decoded from b carries b's required fields
BlockKept(b, blk) ==
    /\ blk.variant = b.type.s
    /\ b.type.s = "text" => blk.text = b.text.s
    /\ b.type.s = "thinking" =>
          blk.thinking = b.thinking.s /\ blk.signature = b.signature.s
    /\ b.type.s = "tool_use" =>
          blk.id = b.id.s /\ blk.name = b.name.s /\ blk.input = b.input
    /\ b.type.s = "tool_result" => blk.toolUseID = b.tool_use_id.s

BlocksKept(bs, blks) ==
    /\ Len(blks) = Len(bs)
    /\ \A i \in 1..Len(bs) : BlockKept(bs[i], blks[i])

\* an envelope of a recognised type with every required field present
WireValid(w) ==
    /\ IsString(w.type)
    /\ w.type.s \in MessageTypes
    /\ w.type.s \in {"user", "assistant"} =>
          /\ w.message.kind = "map"
          /\ w.body.content.kind = "list" =>
                \A i \in 1..Len(w.body.blocks) : ValidBlock(w.body.blocks[i])
    /\ w.type.s = "assistant" =>
          IsString(w.body.model) /\ w.body.content.kind = "list"
    /\ w.type.s = "system" => IsString(w.subtype)
    /\ w.type.s = "result" =>
          /\ IsString(w.subtype)
          /\ w.duration_ms.kind = "number"
          /\ w.duration_api_ms.kind = "number"
          /\ w.is_error.kind = "bool"
          /\ w.num_turns.kind = "number"
          /\ IsString(w.session_id)

\* the Message carries the envelope's required fields
RequiredKept(w, msg) ==
    /\ msg.variant = w.type.s
    /\ w.type.s \in {"user", "assistant"} /\ w.body.content.kind = "list" =>
          BlocksKept(w.body.blocks, msg.blocks)
    /\ w.type.s = "assistant" => msg.model = w.body.model.s
    /\ w.type.s = "system" => msg.subtype = w.subtype.s
    /\ w.type.s = "result" =>
          /\ msg.subtype = w.subtype.s
          /\ msg.durationMS = w.duration_ms.n
          /\ msg.durationAPIMS = w.duration_api_ms.n
          /\ msg.isError = (w.is_error.n = 1)
          /\ msg.numTurns = w.num_turns.n
          /\ msg.sessionID = w.session_id.s

\* C24: every valid single-line envelope of a recognised type with all its
\* required fields present, zero and empty values included, comes out of
\* the pipeline (decode, messageDataToMap, ParseMessage) as a Message that
\* carries every required field unchanged.
C24_ValidEnvelopeProduced ==
    ( /\ hist.parse.stage \in {"buffered", "skipped", "delivered"}
      /\ WireValid(hist.parse.wire) )
    => /\ hist.parse.stage = "delivered"
       /\ RequiredKept(hist.parse.wire, hist.parse.out.msg)

\* v on the wire and g in a Go map are the same value
SameValue(v, g) ==
    IF v.kind = "number" THEN g.kind \in {"int", "float"} /\ g.n = v.n
    ELSE g = v

\* C25: a System message carries its auxiliary fields as an open mapping:
\* every top-level field of the system envelope is in SystemMessage.Data
\* with the same value, and Data has no field that was not on the wire.
C25_SystemDataIsTheEnvelope ==
    ( /\ hist.parse.stage = "delivered"
      /\ hist.parse.out.msg.variant = "system" )
    => \A f \in TopFields :
          IF hist.parse.wire[f].kind = "absent"
          THEN hist.parse.out.msg.data[f].kind = "absent"
          ELSE SameValue(hist.parse.wire[f], hist.parse.out.msg.data[f])

\* ParseMessage has run on hist.parse.in and returned hist.parse.out
ParseRan == hist.parse.stage \in {"parsed", "delivered", "skipped"}

RecognisedType(v) == IsString(v) /\ v.s \in MessageTypes
RecognisedBlockType(v) == IsString(v) /\ v.s \in BlockTypes

\* C26: every Message ParseMessage returns has a recognised discriminator,
\* and so has each of its content blocks; a map with no string `type`, with
\* a `type` outside {user, assistant, system, result}, or with a content
\* block whose type is outside {text, thinking, tool_use, tool_result}
\* yields an error and no Message.
C26_DiscriminatorRecognised ==
    ParseRan =>
        LET m == hist.parse.in
            r == hist.parse.out
        IN  /\ r.err = NoParseError
                => /\ r.msg.variant \in MessageTypes
                   /\ r.msg.variant = m.type.s
                   /\ \A i \in 1..Len(r.msg.blocks) :
                         r.msg.blocks[i].variant \in BlockTypes
            /\ ~RecognisedType(m.type)
                => r.err # NoParseError /\ r.msg = NoMessage
            /\ ( /\ RecognisedType(m.type)
                 /\ m.type.s \in {"user", "assistant"}
                 /\ \E i \in 1..Len(m.body.blocks) :
                       ~RecognisedBlockType(m.body.blocks[i].type) )
                => r.err # NoParseError /\ r.msg = NoMessage

\* ParseMessage rejected an assistant map whose second block is of an
\* unrecognised type, the first being valid
C26_Witness ==
    /\ hist.parse.stage = "parsed"
    /\ hist.parse.in.type = Str("assistant")
    /\ Len(hist.parse.in.body.blocks) = 2
    /\ hist.parse.in.body.blocks[2].type = Str("image")
    /\ hist.parse.out.err = ErrUnknown("content block type")
    /\ hist.parse.out.msg = NoMessage

\* the required top-level fields of m's variant that are absent or of the
\* wrong shape
IsNumber(v) == v.kind \in {"int", "float"}

BadFields(m) ==
    IF m.type.s = "assistant"
    THEN {f \in {"message"} : m.message.kind # "map"}
         \cup {f \in {"model"} : ~IsString(m.body.model)}
         \cup {f \in {"content"} : m.body.content.kind # "list"}
    ELSE IF m.type.s = "system"
    THEN {f \in {"subtype"} : ~IsString(m.subtype)}
    ELSE IF m.type.s = "result"
    THEN {f \in {"subtype", "session_id"} : ~IsString(m[f])}
         \cup {f \in {"duration_ms", "duration_api_ms", "num_turns"} :
                  ~IsNumber(m[f])}
         \cup {f \in {"is_error"} : m.is_error.kind # "bool"}
    ELSE {}

\* the required fields of block b's variant that are absent or of the wrong
\* shape
BadBlockFields(b) ==
    IF b.type.s = "text" THEN {f \in {"text"} : ~IsString(b[f])}
    ELSE IF b.type.s = "thinking"
    THEN {f \in {"thinking", "signature"} : ~IsString(b[f])}
    ELSE IF b.type.s = "tool_use"
    THEN {f \in {"id", "name"} : ~IsString(b[f])}
         \cup {f \in {"input"} : b.input.kind # "map"}
    ELSE IF b.type.s = "tool_result"
    THEN {f \in {"tool_use_id"} : ~IsString(b[f])}
    ELSE {}

\* the blocks of m are all objects of a recognised type
BlocksTyped(m) ==
    \A i \in 1..Len(m.body.blocks) :
        /\ m.body.blocks[i].shape = "map"
        /\ RecognisedBlockType(m.body.blocks[i].type)

FirstBadBlock(m) ==
    CHOOSE i \in 1..Len(m.body.blocks) :
        /\ BadBlockFields(m.body.blocks[i]) # {}
        /\ \A j \in 1..(i - 1) : BadBlockFields(m.body.blocks[j]) = {}

\* C27: when a required field of a message or content-block variant is
\* absent or of the wrong shape, ParseMessage returns no Message and an
\* error that names such a field: the only one if there is one, and
\* otherwise one of those of the message, or of the first block that has
\* one.
C27_MissingFieldNamed ==
    (ParseRan /\ RecognisedType(hist.parse.in.type)) =>
        LET m == hist.parse.in
            r == hist.parse.out
        IN  /\ BadFields(m) # {}
                => /\ r.msg = NoMessage
                   /\ r.err.kind = "missing"
                   /\ r.err.field \in BadFields(m)
            /\ ( /\ BadFields(m) = {}
                 /\ m.type.s \in {"user", "assistant"}
                 /\ m.message.kind = "map"
                 /\ BlocksTyped(m)
                 /\ \E i \in 1..Len(m.body.blocks) :
                       BadBlockFields(m.body.blocks[i]) # {} )
                => /\ r.msg = NoMessage
                   /\ r.err.kind = "missing"
                   /\ r.err.field
                         \in BadBlockFields(m.body.blocks[FirstBadBlock(m)])

\* ParseMessage rejected a result map whose only fault is the absence of
\* num_turns, naming it
C27_Witness ==
    /\ hist.parse.stage = "parsed"
    /\ hist.parse.in.type = Str("result")
    /\ hist.parse.in.num_turns = Absent
    /\ BadFields(hist.parse.in) = {"num_turns"}
    /\ hist.parse.out = Failed(ErrMissing("num_turns"))

\* the object the Message was decoded from: the wire envelope on the
\* pipeline, the map on a direct call
ParseSource ==
    IF hist.parse.stage = "parsed" THEN hist.parse.in ELSE hist.parse.wire

\* an optional field kept as it was: absent stays absent (nil), a value of
\* the field's type is carried over
OptionalKept(v, kinds, g) ==
    /\ v.kind = "absent" => g = Absent
    /\ v.kind \in kinds => SameValue(v, g)

\* C28: optional fields keep their absence.  A Result without
\* total_cost_usd, usage or result decodes with that field nil, a
\* tool_result's is_error is nil, true or false exactly as in the block, and
\* an optional field that is present decodes to its value.
C28_OptionalFieldsKept ==
    (ParseRan /\ hist.parse.out.err = NoParseError) =>
        LET src == ParseSource
            msg == hist.parse.out.msg
        IN  /\ msg.variant = "result" =>
                  /\ OptionalKept(src.total_cost_usd, {"number", "float"},
                                  msg.totalCostUSD)
                  /\ OptionalKept(src.usage, {"map"}, msg.usage)
                  /\ OptionalKept(src.result, {"string"}, msg.result)
            /\ \A i \in 1..Len(msg.blocks) :
                  msg.blocks[i].variant = "tool_result" =>
                      /\ OptionalKept(src.body.blocks[i].is_error, {"bool"},
                                      msg.blocks[i].isError)
                      /\ msg.blocks[i].content = src.body.blocks[i].content

\* ParseMessage returned a Result for a map that has usage but neither
\* total_cost_usd nor result
C28_Witness ==
    /\ hist.parse.stage = "parsed"
    /\ hist.parse.out.msg.variant = "result"
    /\ hist.parse.in.total_cost_usd = Absent
    /\ hist.parse.in.result = Absent
    /\ hist.parse.in.usage = Map("usage")
    /\ hist.parse.out.msg.totalCostUSD = Absent
    /\ hist.parse.out.msg.result = Absent
    /\ hist.parse.out.msg.usage = Map("usage")

\* a user or assistant map whose content is a list and whose own required
\* fields are in place
HasBlockList(m) ==
    /\ RecognisedType(m.type)
    /\ m.type.s \in {"user", "assistant"}
    /\ m.message.kind = "map"
    /\ m.body.content.kind = "list"
    /\ m.type.s = "assistant" => IsString(m.body.model)

\* C29: the content blocks of a decoded user or assistant message are those
\* of the list it was decoded from, in the same order and number (an empty
\* list gives an empty sequence); if any block of the list fails to decode,
\* the whole message is rejected.
C29_BlocksInOrder ==
    (ParseRan /\ HasBlockList(hist.parse.in)) =>
        LET m == hist.parse.in
            r == hist.parse.out
        IN  IF \A i \in 1..Len(m.body.blocks) : ValidBlock(m.body.blocks[i])
            THEN /\ r.err = NoParseError
                 /\ BlocksKept(m.body.blocks, r.msg.blocks)
            ELSE r.err # NoParseError /\ r.msg = NoMessage

\* ParseMessage returned an assistant message with a thinking block
\* followed by a text block, as in the list
C29_Witness ==
    /\ hist.parse.stage = "parsed"
    /\ hist.parse.in.type = Str("assistant")
    /\ Len(hist.parse.in.body.blocks) = 2
    /\ hist.parse.in.body.blocks[1].type = Str("thinking")
    /\ hist.parse.in.body.blocks[2].type = Str("text")
    /\ Len(hist.parse.out.msg.blocks) = 2
    /\ hist.parse.out.msg.blocks[1].variant = "thinking"
    /\ hist.parse.out.msg.blocks[2].variant = "text"

\* the relay goroutine of Query call k is in its loop
Relaying(k) == fwd[k].kind = "query" /\ fwd[k].pc \in {"select", "send"}

\* C30: after a successful connect, once the inbound channel has been
\* closed or the caller's context cancelled, the channel Query returned is
\* eventually closed, whether or not the caller is still receiving.
C30_QueryChannelClosed ==
    \A k \in Calls :
        (Relaying(k) /\ (t.msgChanClosed \/ ctxDone)) ~> fwd[k].closed

\* C31: QuerySync returns the messages of its Query in delivery order.  If
\* one of them is an error message, it is the last one returned and the
\* error is a Connection error; otherwise the error is nil and the channel
\* was closed.  A delivered error message always ends the call.
C31_QuerySyncCollects ==
    /\ hist.ret.op = "QuerySync" =>
          LET ms == hist.ret.messages
          IN  /\ ms = DeliveredTo(hist.ret.n)
              /\ IF \E i \in 1..Len(ms) : IsErrorMessage(ms[i])
                 THEN /\ hist.ret.err.type = "CLIConnectionError"
                      /\ IsErrorMessage(ms[Len(ms)])
                 ELSE /\ hist.ret.err = NoError
                      /\ fwd[hist.ret.n].closed
    /\ \A i \in 1..Len(hist.delivered) :
          IsErrorMessage(hist.delivered[i].msg)
              => ~(caller.pc = "reading" /\ caller.k = hist.delivered[i].call)

\* QuerySync returned a Connection error together with the error message
C31_Witness ==
    /\ hist.ret.op = "QuerySync"
    /\ hist.ret.err.type = "CLIConnectionError"
    /\ hist.ret.messages = <<ErrorMessage(Errorf(hist.ret.err.msg))>>

\* the goroutine of call k is in its loop: waiting for an inbound message or
\* blocked delivering one
Forwarding(k) == fwd[k].pc \in {"select", "send"}
RelayingResponse(k) == rsp[k].pc \in {"range", "send"}

\* C32: once the context handed to ReceiveMessages, ReceiveResponse or Query
\* is cancelled, the loop of the call stops and its output channel is
\* closed, whether the loop waits for an inbound message or is blocked
\* delivering to a caller that does not receive.  The step by which a
\* ReceiveMessages or ReceiveResponse loop notices the cancellation leaves
\* the child, the bridge and the client's connected state as they were.
C32_CancelClosesOutput ==
    /\ \A k \in Calls :
          /\ (ctxDone /\ Forwarding(k)) ~> (fwd[k].closed /\ OutClosed(k))
          /\ (ctxDone /\ RelayingResponse(k)) ~> rsp[k].closed
    /\ [][\A k \in Calls :
             (fwd[k].kind \in {"messages", "response"}
                /\ (FwdCtxDone(k) \/ RspCtxDone(k) \/ RspClosed(k)))
             => (proc' = proc /\ t' = t /\ c' = c /\ files' = files)]_vars

\* a ReceiveResponse call cancelled while its forwarder held a message the
\* caller never took: both channels are closed, the child still runs and
\* the client is still connected
C32_Witness ==
    \E k \in Calls :
        /\ ctxDone
        /\ fwd[k].kind = "response"
        /\ fwd[k].closed /\ rsp[k].closed /\ ~rsp[k].sawResult
        /\ Len(fwd[k].taken) > Len(DeliveredTo(k))
        /\ proc.state = "running"
        /\ c.connected /\ t.connected

\* a step of the writer that closes the child's stdin
WriterCloses == streamInput /\ proc.stdinOpen /\ ~proc'.stdinOpen
\* a step of the writer that leaves the loop with the handle still set
WriterLeaves == streamInput /\ writer'.pc = "done" /\ t.stdin # "nil"
PromptExhausted == prompt.items = 0 /\ prompt.closed

\* C33 as stated: with closeStdinAfterPrompt the writer closes stdin once
\* the prompt is exhausted and never while an item is still unwritten;
\* without it the writer leaves stdin open and only Disconnect closes it.
C33_StdinClosedAfterPrompt ==
    [][/\ WriterCloses => (t.closeStdinAfterPrompt /\ PromptExhausted)
       /\ (WriterLeaves /\ t.closeStdinAfterPrompt) => ~proc'.stdinOpen
       /\ (WriterLeaves /\ ~t.closeStdinAfterPrompt)
             => proc'.stdinOpen = proc.stdinOpen
       /\ (~t.closeStdinAfterPrompt /\ gen' = gen
             /\ proc.stdinOpen /\ ~proc'.stdinOpen)
             => t'.stdinCloses = t.stdinCloses + 1]_vars

\* C33, amended: as above, except that the writer also closes stdin when a
\* write to it fails, with the failed item and the rest of the prompt
\* unwritten.
C33_StdinClosedAfterPromptOrFailure ==
    [][/\ WriterCloses
             => /\ t.closeStdinAfterPrompt
                /\ PromptExhausted \/ (prompt.items > 0 /\ ~WriteOk)
       /\ (WriterLeaves /\ t.closeStdinAfterPrompt) => ~proc'.stdinOpen
       /\ (WriterLeaves /\ ~t.closeStdinAfterPrompt)
             => proc'.stdinOpen = proc.stdinOpen
       /\ (~t.closeStdinAfterPrompt /\ gen' = gen
             /\ proc.stdinOpen /\ ~proc'.stdinOpen)
             => t'.stdinCloses = t.stdinCloses + 1]_vars

\* a one-shot Query whose writer wrote its item, found the prompt exhausted
\* and closed stdin while the child was running
C33_Witness ==
    /\ t.closeStdinAfterPrompt /\ t.connected /\ t.stdin # "nil"
    /\ writer.pc = "done" /\ ~writer.failed
    /\ proc.stdinLog = MaxPrompt /\ PromptExhausted
    /\ ~proc.stdinOpen /\ proc.state = "running"

\* a Client session whose writer has left its loop on the exhausted prompt:
\* stdin is still open
C33_SessionWitness ==
    /\ ~t.closeStdinAfterPrompt /\ t.connected /\ c.connected
    /\ writer.pc = "done" /\ PromptExhausted
    /\ proc.stdinOpen

\* the buffer holds the earlier lines of object id, from its first line on
\* and nothing else
PartsOf(buf, id) ==
    /\ buf # <<>>
    /\ buf[1].part = "head"
    /\ \A i \in 1..Len(buf) : buf[i].id = id
    /\ \A i \in 2..Len(buf) : buf[i].part = "mid"

\* the reader scans the last line of an object whose earlier lines are in
\* the buffer / a blank line
ScansTail == ReaderScan /\ Head(proc.stdout).part = "tail"
                        /\ PartsOf(reader.jsonBuffer, Head(proc.stdout).id)
ScansBlank == ReaderScan /\ Head(proc.stdout).part = "blank"

\* the frames the reader has decoded or passed on are complete objects
Complete(frames) ==
    \A i \in 1..Len(frames) :
        /\ frames[i].part \in {"whole", "tail"}
        /\ \A j \in 1..Len(frames) : i # j => frames[i].id # frames[j].id

\* C34: an object split across adjacent lines is reassembled: when its last
\* line is scanned the reader holds the one decoded object for delivery and
\* the buffer is empty.  A blank line changes nothing.  Every frame decoded,
\* held for delivery or put on the inbound channel is a complete object, and
\* no object is delivered twice.
C34_SplitObjectReassembled ==
    /\ [](/\ Complete(DecodedOf(gen))
          /\ Complete(EnqueuedOf(gen))
          /\ reader.pc = "send"
               => /\ reader.jsonBuffer = <<>>
                  /\ reader.data.part \in {"whole", "tail"}
                  /\ reader.data = Last(DecodedOf(gen)))
    /\ [][/\ ScansTail
             => /\ reader'.pc = "send"
                /\ reader'.data.id = Head(proc.stdout).id
                /\ reader'.jsonBuffer = <<>>
                /\ hist'.decoded = Append(hist.decoded, Tag(Head(proc.stdout)))
          /\ ScansBlank => (reader' = reader /\ hist' = hist /\ t' = t)]_vars

\* an object written on several lines has reached the caller as one
\* message; nothing else was decoded and the buffer is empty
C34_Witness ==
    /\ reader.pc = "scan" /\ reader.jsonBuffer = <<>>
    /\ \E i \in 1..Len(hist.delivered) :
          /\ hist.delivered[i].msg.part = "tail"
          /\ hist.delivered[i].msg.id = 1
    /\ Len(DecodedOf(gen)) = 1
    /\ hist.nextId = 2
    /\ proc.stdout = <<>>

\* Query call k could not start
QueryFailed(k) == fwd[k].kind = "query" /\ fwd[k].err # NoError

\* C35: a Query that cannot construct or connect its transport yields one
\* System message of subtype "error" carrying the error text and then closes
\* its channel; it takes nothing from an inbound channel, yields nothing
\* else, and leaves no child running.
C35_FailedQueryYieldsOneError ==
    \A k \in Calls :
        QueryFailed(k) =>
            /\ fwd[k].taken = <<>>
            /\ fwd[k].pc \in {"errsend", "done"}
            /\ fwd[k].closed = (fwd[k].pc = "done")
            /\ Len(DeliveredTo(k)) = IF fwd[k].pc = "done" THEN 1 ELSE 0
            /\ \A i \in 1..Len(DeliveredTo(k)) :
                  /\ DeliveredTo(k)[i].type = "system"
                  /\ DeliveredTo(k)[i].part = "error"
                  /\ DeliveredTo(k)[i].text = fwd[k].err.msg
                  /\ DeliveredTo(k)[i].text # ""
            /\ (caller.k = k /\ hist.ret.op = "QueryFn")
                  => proc.state # "running"

\* a Query whose Connect failed has delivered its error message and closed
\* the channel, and the caller has seen the channel closed
C35_Witness ==
    \E k \in Calls :
        /\ QueryFailed(k)
        /\ fwd[k].err = Errorf("failed to connect")
        /\ fwd[k].closed
        /\ Len(DeliveredTo(k)) = 1
        /\ caller.pc = "idle" /\ caller.k = k

\* Query call k connected its bridge and its output channel is closed
QueryEnded(k) ==
    fwd[k].kind = "query" /\ fwd[k].err = NoError /\ fwd[k].closed

\* a step in which the relay loop of Query call k is left
RelayExits(k) ==
    fwd[k].kind = "query" /\ (FwdClosed(k) \/ FwdCtxDone(k))

\* C36: once the channel of a Query that connected is closed, the bridge's
\* Disconnect has run: the stderr file of that bridge is gone and, as long
\* as no later bridge exists, the child is dead and reaped, stdin is
\* released and the bridge is not connected.  Each way out of the relay
\* loop (inbound channel closed, cancellation while receiving or while
\* sending) closes the channel in that state.
C36_DisconnectBeforeClose ==
    /\ [](\A k \in Calls :
            QueryEnded(k) =>
                /\ fwd[k].gen \notin files
                /\ fwd[k].gen = gen =>
                      /\ proc.state = "exited" /\ proc.waited
                      /\ ~proc.stdinOpen
                      /\ ~t.connected /\ t.stdin = "nil"
                      /\ t.kills = 1 /\ t.removes = 1)
    /\ [][\A k \in Calls : RelayExits(k) => QueryEnded(k)']_vars

\* a Query cancelled while its relay held an undelivered message: the
\* channel is closed and the child, still running until then, was killed
C36_Witness ==
    \E k \in Calls :
        /\ QueryEnded(k) /\ fwd[k].gen = gen
        /\ ctxDone
        /\ Len(fwd[k].taken) > Len(DeliveredTo(k))
        /\ proc.killed
        /\ files = {}

\* C37: a Client.Connect that returns an error leaves the client as it was:
\* not connected and without a bridge handle.
C37_FailedConnectLeavesClient ==
    [][ConnectStep /\ hist'.ret.err # NoError
          => (c' = c /\ ~c'.connected /\ c'.transport = 0)]_vars

\* C38: between the calls of one caller, the connected flag of the Client
\* is set only while it holds a bridge and that bridge is connected; when
\* Disconnect has returned, the flag is clear and the handle unset.
C38_ConnectedImpliesBridge ==
    /\ c.connected => (c.transport # 0 /\ ClientTransport.connected)
    /\ hist.ret.op = "Disconnect" => (~c.connected /\ c.transport = 0)

\* Disconnect has returned on a client that was connected and had a
\* ReceiveMessages loop running on its bridge
C38_Witness ==
    /\ hist.ret.op = "Disconnect" /\ hist.ret.wasConnected
    /\ ~c.connected /\ c.transport = 0 /\ ~t.connected
    /\ \E k \in Calls : fwd[k].kind = "messages" /\ fwd[k].gen = gen

\* the client is connected and its child has exited by itself
C38_ConnectedWitness ==
    /\ c.connected /\ c.transport = gen /\ t.connected
    /\ proc.state = "exited" /\ ~proc.killed
    /\ hist.ret.op = "Interrupt"

\* C39: over Connect and Disconnect calls on one transport, Connect after
\* Disconnect included, the inbound channel and the done channel are closed
\* at most once, and no reader sends on a channel that is closed.
C39_ChannelsClosedOnce ==
    /\ t.closes <= 1
    /\ reader.pc # "panic"

\* a goroutine is inside a Write or a Close on the stdin handle
WriterOnStdin == writer.pc \in {"writing", "closing"}
CallOnStdin == caller.mu \in {"SendRequest writing", "Disconnect closing"}

\* C40: streamInput, SendRequest and Disconnect are never inside a write or
\* a close on stdin at the same time, and streamInput never starts a write
\* or a close on a handle that Disconnect has set to nil.
C40_StdinAccessSerialised ==
    /\ ~(WriterOnStdin /\ CallOnStdin)
    /\ writer.pc # "panic"

====
